---- MODULE Spec2Model ----
(***************************************************************************)
(* State-machine model of the Skill-Swap-Platform backend: the Express     *)
(* REST routes for swaps, sessions and administration, the two auth        *)
(* middlewares, and the Socket.IO handler, over the Mongoose collections   *)
(* users, swaps, sessions and messages.                                    *)
(***************************************************************************)
EXTENDS Integers, Sequences, FiniteSets, TLC

\* ---------------------------------------------------------------- bounds
MaxSwaps == 2
MaxSessions == 2
MaxMessages == 1
MaxCompleted == 2
MaxFeedbacks == 3
MaxInflight == 2
MaxAge == 10
MaxVoteTime == 3
MaxAccounts == 3
MaxHashes == 3

\* ------------------------------------------------------------ vocabulary
Nil == "nil"          \* undefined / null for strings
NoId == 0             \* undefined / null for document ids

Users == {"u1", "u2", "u3"}
Roles == {"user", "moderator", "admin"}
SwapStatuses == {"pending", "accepted", "rejected", "completed", "cancelled"}
SessionStatuses == {"scheduled", "in-progress", "completed", "cancelled", "no-show"}
Skills == {"js", "py"}
DefaultSkill == "js"
DefaultDuration == 60
SocketIds == {"k1", "k2"}

VARIABLES
  users,      \* users collection: user id -> document
  swaps,      \* swaps collection: sequence, _id = index
  sessions,   \* sessions collection: sequence, _id = index
  messages,   \* messages collection: sequence, _id = index
  sockets,    \* connected Socket.IO sockets: socket id -> socket.userId or Nil
  resp,       \* the last request / event handled and its outcome
  feedbacks,  \* feedbacks collection: sequence, _id = index
  inflight,   \* requests suspended at an await, between their checks and their save()
  rooms,      \* Socket.IO rooms: socket id -> the swap ids whose room the socket is in
  activeChats,    \* ChatProvider state of the client behind a socket: joined swap ids
  clientMessages, \* ChatProvider state messages[swapId], as a set of entries
  connectedUsers, \* the Map connectedUsers: socket.userId -> socketId
  userRooms,      \* the Map userRooms: socket.userId -> set of swap ids (room swap:<id>)
  registry,       \* accounts made through /api/auth/register: the Supabase accounts,
                  \* the documents of the users collection, the requests under way
  userDoc         \* a document of the JWT-variant User model in memory, the password
                  \* stored for it, and the progress of its save()

\* the state outside the REST handlers of swaps, sessions and administration
ext == <<feedbacks, inflight, rooms, activeChats, registry, userDoc, clientMessages, connectedUsers, userRooms>>

vars == <<users, swaps, sessions, messages, sockets, resp, feedbacks, inflight,
          rooms, activeChats, registry, userDoc, clientMessages, connectedUsers, userRooms>>

\* ------------------------------------------------------- small utilities
\* obj[key] of a JavaScript object: undefined when the key is absent
Field(obj, key, undef) == IF key \in DOMAIN obj THEN obj[key] ELSE undef

\* a || b on ids
OrId(a, b) == IF a # NoId THEN a ELSE b

SwapIds == 1..MaxSwaps
UrlSwapIds == SwapIds
UrlSessionIds == (1..MaxSessions)

\* Model.findById: the document's id, or NoId when there is none
FindSwap(id) == IF id \in 1..Len(swaps) THEN id ELSE NoId
FindSession(id) == IF id \in 1..Len(sessions) THEN id ELSE NoId

\* an error object as errorHandler looks at it: absent code / statusCode are
\* 0, an absent message is Nil, errors is the list of the field errors'
\* messages (hasErrors tells whether err.errors exists), keyField the first
\* key of err.keyValue (Nil when err.keyValue is absent)
NoErr == [name |-> Nil, code |-> 0, statusCode |-> 0, message |-> Nil,
          hasErrors |-> FALSE, errors |-> <<>>, keyField |-> Nil]

\* the JSON body errorHandler sends: details is absent, a list or a text
NoDetails == [kind |-> "none", list |-> <<>>, text |-> Nil]
NoBody == [error |-> Nil, details |-> NoDetails]

\* the outcomes of one request under the two middleware stacks; 0 = next()
NoOutcomes == [jwtAuth |-> 0, supAuth |-> 0, jj |-> 0, ss |-> 0, js |-> 0, sj |-> 0]

\* the outcome record of a handled request or event
Resp(op, caller, urlId, bodyId, status, doc) ==
  [op |-> op, caller |-> caller, urlId |-> urlId, bodyId |-> bodyId,
   status |-> status, doc |-> doc, made |-> NoId, items |-> {}, arg |-> Nil,
   hdr |-> <<>>, fault |-> "none", handler |-> FALSE, target |-> Nil,
   emits |-> {}, count |-> 0, err |-> NoErr, body |-> NoBody, outcomes |-> NoOutcomes]

\* no request is being handled
Idle == Resp("idle", Nil, NoId, NoId, 0, NoId)

\* ------------------------------------------------------------ user model
\* variant of canPerformAction that looks at the ban flag only
canPerformActionBanOnly(u) == ~users[u].isBanned

canPerformAction(u) == users[u].isActive /\ ~users[u].isBanned

\* ------------------------------------------------- authentication (Supabase)
\* Supabase access tokens: one per account; "tg" belongs to an account with
\* no database user, "bad" is rejected by Supabase.
UserTokens == {"t1", "t2", "t3"}
SupabaseAccount == [t1 |-> "s1", t2 |-> "s2", t3 |-> "s3", tg |-> "s9", bad |-> Nil]
supabaseIdOf == [u1 |-> "s1", u2 |-> "s2", u3 |-> "s3"]

\* Authorization header values, as the list of words split(" ") yields;
\* <<>> is an absent header
Headers == {<<>>, <<"Bearer">>} \cup {<<"Bearer", t>> : t \in (UserTokens \cup {"tg", "bad"})}
UserHeaders == {<<"Bearer", t>> : t \in UserTokens}

\* authHeader && authHeader.split(" ")[1]
ExtractToken(hdr) == IF Len(hdr) >= 2 THEN hdr[2] ELSE Nil

\* User.findOne({ supabaseId })
FindUserBySupabaseId(sid) ==
  IF \E u \in Users : supabaseIdOf[u] = sid
  THEN CHOOSE u \in Users : supabaseIdOf[u] = sid
  ELSE Nil

\* authenticateToken: status 0 stands for next(), with req.user = user
authenticateToken(hdr, fault) ==
  LET token == ExtractToken(hdr) IN
  IF token = Nil THEN [status |-> 401, user |-> Nil]
  ELSE IF fault = "supabase" THEN [status |-> 500, user |-> Nil]
  ELSE IF SupabaseAccount[token] = Nil THEN [status |-> 403, user |-> Nil]
  ELSE IF fault = "db" THEN [status |-> 500, user |-> Nil]
  ELSE LET dbUser == FindUserBySupabaseId(SupabaseAccount[token]) IN
       IF dbUser = Nil THEN [status |-> 404, user |-> Nil]
       ELSE IF ~canPerformAction(dbUser) THEN [status |-> 403, user |-> Nil]
       ELSE [status |-> 0, user |-> dbUser]

\* -------------------------------------------------------------- swap model
canBeModified(s) == s.status \in {"pending", "accepted"}
isParticipant(s, u) == s.requesterId = u \/ s.offererId = u
\* variant of getOtherParticipant that always answers the requester
getOtherParticipantRequester(s, u) == s.requesterId

getOtherParticipant(s, u) ==
  IF s.requesterId = u THEN s.offererId
  ELSE IF s.offererId = u THEN s.requesterId ELSE Nil

\* swapSchema.pre("save"): old is the document as loaded, new as assigned
SwapPreSave(old, new) ==
  IF new.status # old.status
  THEN IF new.status = "completed" /\ ~new.completedAt
       THEN [new EXCEPT !.completedAt = TRUE]
       ELSE IF new.status = "cancelled" /\ ~new.cancelledAt
            THEN [new EXCEPT !.cancelledAt = TRUE]
            ELSE new
  ELSE new

NewSwap(req, off, offered, requested, urgent, dur) ==
  [requesterId |-> req, offererId |-> off, status |-> "pending",
   duration |-> dur, skillOffered |-> offered, skillRequested |-> requested,
   isUrgent |-> urgent,
   completedAt |-> FALSE, cancelledAt |-> FALSE, cancelledBy |-> Nil]

\* ----------------------------------------------------------- session model
NewSession(swapId, s, dur) ==
  [swapId |-> swapId, requesterId |-> s.requesterId, offererId |-> s.offererId,
   duration |-> dur, status |-> "scheduled", startedAt |-> FALSE,
   endedAt |-> FALSE, cancelledBy |-> Nil]

sessionIsParticipant(s, u) == s.requesterId = u \/ s.offererId = u

startSession(s) ==
  IF s.status = "scheduled"
  THEN [ok |-> TRUE, doc |-> [s EXCEPT !.status = "in-progress", !.startedAt = TRUE]]
  ELSE [ok |-> FALSE, doc |-> s]

endSession(s) ==
  IF s.status = "in-progress"
  THEN [ok |-> TRUE, doc |-> [s EXCEPT !.status = "completed", !.endedAt = TRUE]]
  ELSE [ok |-> FALSE, doc |-> s]

cancelSession(s, u) ==
  IF s.status = "scheduled"
  THEN [ok |-> TRUE, doc |-> [s EXCEPT !.status = "cancelled", !.cancelledBy = u]]
  ELSE [ok |-> FALSE, doc |-> s]

\* ------------------------------------------------------------- route guards
\* requireSwapParticipation: status 0 stands for next(), with req.swap = swap.
\* params holds the route's path parameters, body the parsed JSON body.
requireSwapParticipation(user, params, body) ==
  LET swapId == OrId(Field(params, "swapId", NoId), Field(body, "swapId", NoId)) IN
  IF user = Nil THEN [status |-> 401, swap |-> NoId]
  ELSE IF swapId = NoId THEN [status |-> 400, swap |-> NoId]
  ELSE IF FindSwap(swapId) = NoId THEN [status |-> 404, swap |-> NoId]
  ELSE IF ~isParticipant(swaps[swapId], user) THEN [status |-> 403, swap |-> NoId]
  ELSE [status |-> 0, swap |-> swapId]

\* requireSessionParticipation: status 0 stands for next(), req.session = session
requireSessionParticipation(user, params, body) ==
  LET sessionId == OrId(Field(params, "sessionId", NoId), Field(body, "sessionId", NoId)) IN
  IF user = Nil THEN [status |-> 401, session |-> NoId]
  ELSE IF sessionId = NoId THEN [status |-> 400, session |-> NoId]
  ELSE IF FindSession(sessionId) = NoId THEN [status |-> 404, session |-> NoId]
  ELSE IF ~sessionIsParticipant(sessions[sessionId], user) THEN [status |-> 403, session |-> NoId]
  ELSE [status |-> 0, session |-> sessionId]

\* the path parameters Express extracts for a route declared as "/:id..."
IdParams(urlId) == [id |-> urlId]

\* a JSON body that carries swapId / sessionId only when given
SwapBody(bodyId) == IF bodyId = NoId THEN <<>> ELSE [swapId |-> bodyId]
SessionBody(bodyId) == IF bodyId = NoId THEN <<>> ELSE [sessionId |-> bodyId]

\* authenticateToken followed by requireSwapParticipation, as the swap routes
\* on "/:id" chain them
SwapGate(hdr, urlId, bodyId) ==
  LET a == authenticateToken(hdr, "none") IN
  IF a.status # 0 THEN [status |-> a.status, user |-> Nil, swap |-> NoId]
  ELSE LET g == requireSwapParticipation(a.user, IdParams(urlId), SwapBody(bodyId)) IN
       [status |-> g.status, user |-> a.user, swap |-> g.swap]

SessionGate(hdr, urlId, bodyId) ==
  LET a == authenticateToken(hdr, "none") IN
  IF a.status # 0 THEN [status |-> a.status, user |-> Nil, session |-> NoId]
  ELSE LET g == requireSessionParticipation(a.user, IdParams(urlId), SessionBody(bodyId)) IN
       [status |-> g.status, user |-> a.user, session |-> g.session]

\* req.swap.save(): runs the pre-save hook and stores the document
SaveSwap(id, new) == [swaps EXCEPT ![id] = SwapPreSave(swaps[id], new)]

\* User.findByIdAndUpdate(id, { $inc: { completedSwaps: 1 } }) for both parties
IncCompletedSwaps(us, s) ==
  [u \in Users |->
     [us[u] EXCEPT !.completedSwaps =
        @ + (IF s.requesterId = u THEN 1 ELSE 0) + (IF s.offererId = u THEN 1 ELSE 0)]]

IncTotalSessions(us, s) ==
  [u \in Users |->
     [us[u] EXCEPT !.totalSessions =
        @ + (IF s.requesterId = u THEN 1 ELSE 0) + (IF s.offererId = u THEN 1 ELSE 0)]]

\* ----------------------------------------------------- POST /api/swaps
ExistingActiveSwap(a, b) ==
  \E i \in 1..Len(swaps) :
     /\ \/ swaps[i].requesterId = a /\ swaps[i].offererId = b
        \/ swaps[i].requesterId = b /\ swaps[i].offererId = a
     /\ swaps[i].status \in {"pending", "accepted"}

CreateSwap(hdr, offererId, offered, requested, urgent, dur) ==
  /\ resp = Idle
  /\ UNCHANGED ext
  /\ LET a == authenticateToken(hdr, "none")
         fail(code) == /\ resp' = Resp("createSwap", a.user, NoId, NoId, code, NoId)
                       /\ UNCHANGED <<users, swaps, sessions, messages, sockets>>
     IN
     IF a.status # 0 THEN fail(a.status)
     ELSE IF offererId \notin Users \/ ~canPerformAction(offererId) THEN fail(404)
     ELSE IF a.user = offererId THEN fail(400)
     ELSE IF ExistingActiveSwap(a.user, offererId) THEN fail(400)
     ELSE /\ Len(swaps) < MaxSwaps
          /\ swaps' = Append(swaps, NewSwap(a.user, offererId, offered, requested, urgent, dur))
          /\ resp' = Resp("createSwap", a.user, NoId, NoId, 201, Len(swaps) + 1)
          /\ UNCHANGED <<users, sessions, messages, sockets>>

\* a request slot that holds no suspended request
FreeSlot(n) == \A r \in inflight : r.n # n

\* POST /api/swaps up to and including the await of Swap.findOne: the checks
\* of the handler.  A request that passes them is suspended until its save()
\* runs; other requests are handled in between.
CreateSwapCheck(n, hdr, offererId) ==
  /\ resp = Idle
  /\ FreeSlot(n)
  /\ LET a == authenticateToken(hdr, "none")
         fail(code) == /\ resp' = Resp("createSwap", a.user, NoId, NoId, code, NoId)
                       /\ UNCHANGED inflight
     IN
     IF a.status # 0 THEN fail(a.status)
     ELSE IF offererId \notin Users \/ ~canPerformAction(offererId) THEN fail(404)
     ELSE IF a.user = offererId THEN fail(400)
     ELSE IF ExistingActiveSwap(a.user, offererId) THEN fail(400)
     ELSE /\ inflight' = inflight \cup
                 {[n |-> n, op |-> "createSwap", user |-> a.user,
                   doc |-> NewSwap(a.user, offererId, DefaultSkill, DefaultSkill,
                                   FALSE, DefaultDuration)]}
          /\ UNCHANGED resp
  /\ UNCHANGED <<users, swaps, sessions, messages, sockets, feedbacks>>
  /\ UNCHANGED <<rooms, activeChats, registry, userDoc, clientMessages, connectedUsers, userRooms>>

\* POST /api/swaps from swap.save() to the 201 response
CreateSwapSave(n) ==
  /\ resp = Idle
  /\ \E r \in inflight :
       /\ r.n = n
       /\ r.op = "createSwap"
       /\ Len(swaps) < MaxSwaps
       /\ swaps' = Append(swaps, r.doc)
       /\ inflight' = inflight \ {r}
       /\ resp' = Resp("createSwap", r.user, NoId, NoId, 201, Len(swaps) + 1)
  /\ UNCHANGED <<users, sessions, messages, sockets, feedbacks>>
  /\ UNCHANGED <<rooms, activeChats, registry, userDoc, clientMessages, connectedUsers, userRooms>>

\* ------------------------------------------------------ GET /api/swaps

\* the Mongo query object as the handler builds it, assignment by assignment;
\* the $or key holds one clause list at a time
SwapListQuery(user, status, role, skill, isUrgent) ==
  LET q0 == [requesterId |-> Nil, offererId |-> Nil, or |-> Nil, orArg |-> Nil,
             status |-> Nil, isUrgent |-> Nil]
      q1 == IF role = "requester" THEN [q0 EXCEPT !.requesterId = user]
            ELSE IF role = "offerer" THEN [q0 EXCEPT !.offererId = user]
            ELSE [q0 EXCEPT !.or = "participant", !.orArg = user]
      q2 == IF status # Nil THEN [q1 EXCEPT !.status = status] ELSE q1
      q3 == IF skill # Nil THEN [q2 EXCEPT !.or = "skill", !.orArg = skill] ELSE q2
      q4 == IF isUrgent # Nil
            THEN [q3 EXCEPT !.isUrgent = IF isUrgent = "true" THEN "yes" ELSE "no"]
            ELSE q3
  IN q4

\* whether a swap document satisfies the query
SwapMatches(s, q) ==
  /\ q.requesterId # Nil => s.requesterId = q.requesterId
  /\ q.offererId # Nil => s.offererId = q.offererId
  /\ q.status # Nil => s.status = q.status
  /\ q.isUrgent # Nil => s.isUrgent = (q.isUrgent = "yes")
  /\ q.or = "participant" => (s.requesterId = q.orArg \/ s.offererId = q.orArg)
  /\ q.or = "skill" => (s.skillOffered = q.orArg \/ s.skillRequested = q.orArg)

ListSwaps(hdr, status, role, skill, isUrgent) ==
  /\ resp = Idle
  /\ UNCHANGED ext
  /\ LET a == authenticateToken(hdr, "none") IN
     /\ IF a.status # 0
        THEN resp' = Resp("listSwaps", a.user, NoId, NoId, a.status, NoId)
        ELSE LET q == SwapListQuery(a.user, status, role, skill, isUrgent) IN
             resp' = [Resp("listSwaps", a.user, NoId, NoId, 200, NoId)
                        EXCEPT !.items = {i \in 1..Len(swaps) : SwapMatches(swaps[i], q)}]
     /\ UNCHANGED <<users, swaps, sessions, messages, sockets>>

\* --------------------------------------------------- GET /api/swaps/:id
GetSwap(hdr, urlId, bodyId) ==
  /\ resp = Idle
  /\ UNCHANGED ext
  /\ LET g == SwapGate(hdr, urlId, bodyId) IN
     /\ resp' = Resp("getSwap", g.user, urlId, bodyId,
                     IF g.status # 0 THEN g.status ELSE 200, g.swap)
     /\ UNCHANGED <<users, swaps, sessions, messages, sockets>>

\* --------------------------------------------------- PUT /api/swaps/:id
UpdateStatuses == SwapStatuses \cup {Nil, "bogus"}

UpdateSwap(hdr, urlId, bodyId, status, dur) ==
  /\ resp = Idle
  /\ UNCHANGED ext
  /\ LET g == SwapGate(hdr, urlId, bodyId)
         fail(code) == /\ resp' = [Resp("updateSwap", g.user, urlId, bodyId, code, g.swap)
                                     EXCEPT !.arg = status]
                       /\ UNCHANGED <<users, swaps, sessions, messages, sockets>>
     IN
     IF g.status # 0 THEN fail(g.status)
     ELSE IF status \notin SwapStatuses \cup {Nil} THEN fail(400)
     ELSE IF ~canBeModified(swaps[g.swap]) THEN fail(400)
     ELSE LET s0 == swaps[g.swap]
              s1 == IF status # Nil THEN [s0 EXCEPT !.status = status] ELSE s0
              s2 == IF dur # 0 THEN [s1 EXCEPT !.duration = dur] ELSE s1
              saved == SwapPreSave(s0, s2)
              mk == status = "accepted" /\ saved.status = "accepted"
          IN
          /\ swaps' = [swaps EXCEPT ![g.swap] = saved]
          /\ IF mk
             THEN /\ Len(sessions) < MaxSessions
                  /\ sessions' = Append(sessions, NewSession(g.swap, saved, saved.duration))
             ELSE UNCHANGED sessions
          /\ resp' = [Resp("updateSwap", g.user, urlId, bodyId, 200, g.swap)
                        EXCEPT !.arg = status,
                               !.made = IF mk THEN Len(sessions) + 1 ELSE NoId]
          /\ UNCHANGED <<users, messages, sockets>>

\* -------------------------------------------- PUT /api/swaps/:id/accept
AcceptSwap(hdr, urlId, bodyId) ==
  /\ resp = Idle
  /\ UNCHANGED ext
  /\ LET g == SwapGate(hdr, urlId, bodyId)
         fail(code) == /\ resp' = Resp("acceptSwap", g.user, urlId, bodyId, code, g.swap)
                       /\ UNCHANGED <<users, swaps, sessions, messages, sockets>>
     IN
     IF g.status # 0 THEN fail(g.status)
     ELSE IF swaps[g.swap].offererId # g.user THEN fail(403)
     ELSE IF swaps[g.swap].status # "pending" THEN fail(400)
     ELSE LET saved == SwapPreSave(swaps[g.swap], [swaps[g.swap] EXCEPT !.status = "accepted"]) IN
          /\ Len(sessions) < MaxSessions
          /\ swaps' = [swaps EXCEPT ![g.swap] = saved]
          /\ sessions' = Append(sessions, NewSession(g.swap, saved, saved.duration))
          /\ resp' = [Resp("acceptSwap", g.user, urlId, bodyId, 200, g.swap)
                        EXCEPT !.made = Len(sessions) + 1]
          /\ UNCHANGED <<users, messages, sockets>>

\* -------------------------------------------- PUT /api/swaps/:id/reject
RejectSwap(hdr, urlId, bodyId) ==
  /\ resp = Idle
  /\ UNCHANGED ext
  /\ LET g == SwapGate(hdr, urlId, bodyId)
         fail(code) == /\ resp' = Resp("rejectSwap", g.user, urlId, bodyId, code, g.swap)
                       /\ UNCHANGED <<users, swaps, sessions, messages, sockets>>
     IN
     IF g.status # 0 THEN fail(g.status)
     ELSE IF swaps[g.swap].offererId # g.user THEN fail(403)
     ELSE IF swaps[g.swap].status # "pending" THEN fail(400)
     ELSE /\ swaps' = SaveSwap(g.swap, [swaps[g.swap] EXCEPT !.status = "rejected"])
          /\ resp' = Resp("rejectSwap", g.user, urlId, bodyId, 200, g.swap)
          /\ UNCHANGED <<users, sessions, messages, sockets>>

\* ------------------------------------------ PUT /api/swaps/:id/complete
CompleteSwap(hdr, urlId, bodyId) ==
  /\ resp = Idle
  /\ UNCHANGED ext
  /\ LET g == SwapGate(hdr, urlId, bodyId)
         fail(code) == /\ resp' = Resp("completeSwap", g.user, urlId, bodyId, code, g.swap)
                       /\ UNCHANGED <<users, swaps, sessions, messages, sockets>>
     IN
     IF g.status # 0 THEN fail(g.status)
     ELSE IF swaps[g.swap].status # "accepted" THEN fail(400)
     ELSE /\ users[swaps[g.swap].requesterId].completedSwaps < MaxCompleted
          /\ users[swaps[g.swap].offererId].completedSwaps < MaxCompleted
          /\ swaps' = SaveSwap(g.swap, [swaps[g.swap] EXCEPT !.status = "completed"])
          /\ users' = IncCompletedSwaps(users, swaps[g.swap])
          /\ resp' = Resp("completeSwap", g.user, urlId, bodyId, 200, g.swap)
          /\ UNCHANGED <<sessions, messages, sockets>>

\* ------------------------------------------------ DELETE /api/swaps/:id
CancelSwap(hdr, urlId, bodyId) ==
  /\ resp = Idle
  /\ UNCHANGED ext
  /\ LET g == SwapGate(hdr, urlId, bodyId)
         fail(code) == /\ resp' = Resp("cancelSwap", g.user, urlId, bodyId, code, g.swap)
                       /\ UNCHANGED <<users, swaps, sessions, messages, sockets>>
     IN
     IF g.status # 0 THEN fail(g.status)
     ELSE IF ~canBeModified(swaps[g.swap]) THEN fail(400)
     ELSE /\ swaps' = SaveSwap(g.swap, [swaps[g.swap] EXCEPT !.status = "cancelled",
                                                            !.cancelledBy = g.user])
          /\ resp' = Resp("cancelSwap", g.user, urlId, bodyId, 200, g.swap)
          /\ UNCHANGED <<users, sessions, messages, sockets>>

\* ================================================================ sessions
\* --------------------------------------------------- POST /api/sessions
CreateSession(hdr, swapId, dur) ==
  /\ resp = Idle
  /\ UNCHANGED ext
  /\ LET a == authenticateToken(hdr, "none")
         fail(code) == /\ resp' = Resp("createSession", a.user, NoId, swapId, code, NoId)
                       /\ UNCHANGED <<users, swaps, sessions, messages, sockets>>
     IN
     IF a.status # 0 THEN fail(a.status)
     ELSE IF FindSwap(swapId) = NoId \/ ~isParticipant(swaps[swapId], a.user) THEN fail(404)
     ELSE IF swaps[swapId].status # "accepted" THEN fail(400)
     ELSE IF \E i \in 1..Len(sessions) : sessions[i].swapId = swapId THEN fail(400)
     ELSE /\ Len(sessions) < MaxSessions
          /\ sessions' = Append(sessions, NewSession(swapId, swaps[swapId], dur))
          /\ resp' = [Resp("createSession", a.user, NoId, swapId, 201, NoId)
                        EXCEPT !.made = Len(sessions) + 1]
          /\ UNCHANGED <<users, swaps, messages, sockets>>

\* ------------------------------------------------ PUT /api/sessions/:id

UpdateSession(hdr, urlId, bodyId, status) ==
  /\ resp = Idle
  /\ UNCHANGED ext
  /\ LET g == SessionGate(hdr, urlId, bodyId)
         fail(code) == /\ resp' = [Resp("updateSession", g.user, urlId, bodyId, code, g.session)
                                     EXCEPT !.arg = status]
                       /\ UNCHANGED <<users, swaps, sessions, messages, sockets>>
     IN
     IF g.status # 0 THEN fail(g.status)
     ELSE IF status \notin SessionStatuses \cup {Nil} THEN fail(400)
     ELSE /\ sessions' = IF status # Nil
                         THEN [sessions EXCEPT ![g.session].status = status]
                         ELSE sessions
          /\ resp' = [Resp("updateSession", g.user, urlId, bodyId, 200, g.session)
                        EXCEPT !.arg = status]
          /\ UNCHANGED <<users, swaps, messages, sockets>>

\* ------------------------------------------ PUT /api/sessions/:id/start
StartSession(hdr, urlId, bodyId) ==
  /\ resp = Idle
  /\ UNCHANGED ext
  /\ LET g == SessionGate(hdr, urlId, bodyId)
         fail(code) == /\ resp' = Resp("startSession", g.user, urlId, bodyId, code, g.session)
                       /\ UNCHANGED <<users, swaps, sessions, messages, sockets>>
     IN
     IF g.status # 0 THEN fail(g.status)
     ELSE IF sessions[g.session].status # "scheduled" THEN fail(400)
     ELSE LET r == startSession(sessions[g.session]) IN
          IF ~r.ok THEN fail(400)
          ELSE /\ sessions' = [sessions EXCEPT ![g.session] = r.doc]
               /\ resp' = Resp("startSession", g.user, urlId, bodyId, 200, g.session)
               /\ UNCHANGED <<users, swaps, messages, sockets>>

\* -------------------------------------------- PUT /api/sessions/:id/end
\* Swap.findByIdAndUpdate writes the status without running the save hook
EndSession(hdr, urlId, bodyId) ==
  /\ resp = Idle
  /\ UNCHANGED ext
  /\ LET g == SessionGate(hdr, urlId, bodyId)
         fail(code) == /\ resp' = Resp("endSession", g.user, urlId, bodyId, code, g.session)
                       /\ UNCHANGED <<users, swaps, sessions, messages, sockets>>
     IN
     IF g.status # 0 THEN fail(g.status)
     ELSE IF sessions[g.session].status # "in-progress" THEN fail(400)
     ELSE LET r == endSession(sessions[g.session]) IN
          IF ~r.ok THEN fail(400)
          ELSE /\ users[r.doc.requesterId].totalSessions < MaxCompleted
               /\ users[r.doc.offererId].totalSessions < MaxCompleted
               /\ sessions' = [sessions EXCEPT ![g.session] = r.doc]
               /\ swaps' = [swaps EXCEPT ![r.doc.swapId].status = "completed"]
               /\ users' = IncTotalSessions(users, r.doc)
               /\ resp' = Resp("endSession", g.user, urlId, bodyId, 200, g.session)
               /\ UNCHANGED <<messages, sockets>>

\* ----------------------------------------- PUT /api/sessions/:id/cancel
CancelSession(hdr, urlId, bodyId) ==
  /\ resp = Idle
  /\ UNCHANGED ext
  /\ LET g == SessionGate(hdr, urlId, bodyId)
         fail(code) == /\ resp' = Resp("cancelSession", g.user, urlId, bodyId, code, g.session)
                       /\ UNCHANGED <<users, swaps, sessions, messages, sockets>>
     IN
     IF g.status # 0 THEN fail(g.status)
     ELSE IF sessions[g.session].status # "scheduled" THEN fail(400)
     ELSE LET r == cancelSession(sessions[g.session], g.user) IN
          IF ~r.ok THEN fail(400)
          ELSE /\ sessions' = [sessions EXCEPT ![g.session] = r.doc]
               /\ resp' = Resp("cancelSession", g.user, urlId, bodyId, 200, g.session)
               /\ UNCHANGED <<users, swaps, messages, sockets>>

\* =============================================================== Socket.IO
\* an emit: io.to("swap:<id>"), io.to("user:<id>") or socket.emit; except is
\* the socket that socket.to(...) leaves out
ToSwap(event, swapId, except, msg) ==
  [event |-> event, room |-> "swap", swap |-> swapId, user |-> Nil, sock |-> Nil,
   except |-> except, msg |-> msg]
ToUser(event, u, swapId, msg) ==
  [event |-> event, room |-> "user", swap |-> swapId, user |-> u, sock |-> Nil,
   except |-> Nil, msg |-> msg]
ToSocket(event, k) ==
  [event |-> event, room |-> "socket", swap |-> NoId, user |-> Nil, sock |-> k,
   except |-> Nil, msg |-> NoId]

\* the sockets an emit is delivered to: every socket joins the personal room
\* user:<socket.userId> on connection and the swap rooms held in rooms
Receivers(e) ==
  {k \in SocketIds :
     /\ sockets[k] # Nil
     /\ k # e.except
     /\ e.room = "swap" => e.swap \in rooms[k]
     /\ e.room = "user" => sockets[k] = e.user
     /\ e.room = "socket" => k = e.sock}

\* ================================================= client (ChatProvider)
\* the event names the client emits and the one whose listener appends to
\* messages[swapId]
JoinChatEvent == "joinRoom"
LeaveChatEvent == "leaveRoom"
SendMessageEvent == "message"
ClientMessageEvent == "message"

\* an entry of messages[swapId]: a message received from the server, or the
\* sender's own optimistic copy with a temporary id
Received(swapId, msg) == [swapId |-> swapId, id |-> msg, temp |-> FALSE]
Optimistic(swapId) == [swapId |-> swapId, id |-> NoId, temp |-> TRUE]

\* newSocket.on('message', ...) run by every client an emit is delivered to
ClientReceive(emits) ==
  [k \in SocketIds |->
     clientMessages[k] \cup
       {Received(e.swap, e.msg) :
          e \in {x \in emits : x.event = ClientMessageEvent /\ k \in Receivers(x)}}]

\* res.json(...) / the end of an event handler: the outcome has left the
\* server, which is ready for the next request or event
Respond ==
  /\ resp # Idle
  /\ resp' = Idle
  /\ clientMessages' = ClientReceive(resp.emits)
  /\ UNCHANGED <<users, swaps, sessions, messages, sockets>>
  /\ UNCHANGED <<feedbacks, inflight, rooms, activeChats, registry, userDoc, connectedUsers, userRooms>>

\* io.use: the handshake is authenticated like a REST request, once, at
\* connection time; socket.userId is fixed from then on
SocketAuth(token) ==
  IF token = Nil THEN Nil
  ELSE IF SupabaseAccount[token] = Nil THEN Nil
  ELSE LET dbUser == FindUserBySupabaseId(SupabaseAccount[token]) IN
       IF dbUser = Nil THEN Nil
       ELSE IF ~canPerformAction(dbUser) THEN Nil
       ELSE dbUser

\* Map.prototype.set and Map.prototype.delete on a Map held as a function
MapSet(m, key, v) == [x \in DOMAIN m \cup {key} |-> IF x = key THEN v ELSE m[x]]
MapDelete(m, key) == [x \in DOMAIN m \ {key} |-> m[x]]

\* io.use followed by io.on("connection") for a new socket k
SocketConnect(k, token) ==
  /\ resp = Idle
  /\ /\ sockets[k] = Nil
     /\ LET u == SocketAuth(token) IN
        /\ sockets' = IF u # Nil THEN [sockets EXCEPT ![k] = u] ELSE sockets
        /\ connectedUsers' = IF u # Nil THEN MapSet(connectedUsers, u, k) ELSE connectedUsers
        /\ resp' = Resp("connect", u, NoId, NoId, IF u # Nil THEN 200 ELSE 401, NoId)
     /\ rooms' = [rooms EXCEPT ![k] = {}]
     /\ UNCHANGED <<users, swaps, sessions, messages>>
     /\ UNCHANGED <<feedbacks, inflight, activeChats, registry, userDoc, clientMessages, userRooms>>

\* socket.on("disconnect"); the socket has left all its rooms by then
SocketDisconnect(k) ==
  /\ resp = Idle
  /\ /\ sockets[k] # Nil
     /\ sockets' = [sockets EXCEPT ![k] = Nil]
     /\ rooms' = [rooms EXCEPT ![k] = {}]
     /\ connectedUsers' = MapDelete(connectedUsers, sockets[k])
     /\ userRooms' = MapDelete(userRooms, sockets[k])
     /\ resp' = [Resp("disconnect", sockets[k], NoId, NoId, 200, NoId)
                   EXCEPT !.emits =
                     IF sockets[k] \in DOMAIN userRooms
                     THEN {ToSwap("userDisconnected", r, k, NoId) : r \in userRooms[sockets[k]]}
                     ELSE {}]
     /\ UNCHANGED <<users, swaps, sessions, messages>>
     /\ UNCHANGED <<feedbacks, inflight, activeChats, registry, userDoc, clientMessages>>

\* variant of CanJoinSwap that admits every user to the room of an existing swap
CanJoinSwapAnyone(swapId, u) == FindSwap(swapId) # NoId

\* whether joinSwap admits the socket's user to the room of a swap
CanJoinSwap(swapId, u) == FindSwap(swapId) # NoId /\ isParticipant(swaps[swapId], u)

\* the effect of socket.on("joinSwap") for socket k
JoinSwapEffect(k, swapId) ==
  LET u == sockets[k] IN
  IF ~CanJoinSwap(swapId, u)
  THEN /\ resp' = [Resp("joinSwap", u, NoId, swapId, 403, NoId)
                     EXCEPT !.emits = {ToSocket("error", k)}]
       /\ UNCHANGED <<rooms, userRooms>>
  ELSE /\ rooms' = [rooms EXCEPT ![k] = @ \cup {swapId}]
       /\ userRooms' = MapSet(userRooms, u,
                              (IF u \in DOMAIN userRooms THEN userRooms[u] ELSE {}) \cup {swapId})
       /\ resp' = [Resp("joinSwap", u, NoId, swapId, 200, swapId)
                     EXCEPT !.emits = {ToSocket("joinedSwap", k),
                                       ToSwap("userJoinedSwap", swapId, k, NoId)}]

\* socket.on("joinSwap")
SocketJoinSwap(k, swapId) ==
  /\ resp = Idle
  /\ sockets[k] # Nil
  /\ JoinSwapEffect(k, swapId)
  /\ UNCHANGED <<users, swaps, sessions, messages, sockets>>
  /\ UNCHANGED <<feedbacks, inflight, activeChats, registry, userDoc, clientMessages, connectedUsers>>

\* the effect of socket.on("leaveSwap") for socket k
LeaveSwapEffect(k, swapId) ==
  /\ rooms' = [rooms EXCEPT ![k] = @ \ {swapId}]
  /\ userRooms' = IF sockets[k] \in DOMAIN userRooms
                  THEN [userRooms EXCEPT ![sockets[k]] = @ \ {swapId}]
                  ELSE userRooms
  /\ resp' = [Resp("leaveSwap", sockets[k], NoId, swapId, 200, swapId)
                EXCEPT !.emits = {ToSwap("userLeftSwap", swapId, k, NoId)}]

\* socket.on("leaveSwap")
SocketLeaveSwap(k, swapId) ==
  /\ resp = Idle
  /\ sockets[k] # Nil
  /\ LeaveSwapEffect(k, swapId)
  /\ UNCHANGED <<users, swaps, sessions, messages, sockets>>
  /\ UNCHANGED <<feedbacks, inflight, activeChats, registry, userDoc, clientMessages, connectedUsers>>

\* message contents; the empty string is what trim() leaves of a blank body
Contents == {"a", "b"}
ContentInputs == Contents \cup {""}
DefaultContent == "a"

\* age is Date.now() - createdAt in minutes
NewMessage(swapId, sender) ==
  [swapId |-> swapId, senderId |-> sender, readBy |-> <<>>, present |-> TRUE,
   content |-> DefaultContent, isEdited |-> FALSE, isDeleted |-> FALSE,
   deletedBy |-> Nil, age |-> 0]

FindMessage(id) == IF id \in 1..Len(messages) /\ messages[id].present THEN id ELSE NoId

\* the effect of socket.on("message") for socket k: status 200 when stored,
\* 403 for the error event
MessageEffect(k, swapId) ==
  LET u == sockets[k] IN
  IF FindSwap(swapId) = NoId \/ ~isParticipant(swaps[swapId], u)
  THEN /\ resp' = [Resp("message", u, NoId, swapId, 403, NoId)
                     EXCEPT !.emits = {ToSocket("error", k)}]
       /\ UNCHANGED messages
  ELSE LET id == Len(messages) + 1
           other == getOtherParticipant(swaps[swapId], u)
       IN
       /\ Len(messages) < MaxMessages
       /\ messages' = Append(messages, NewMessage(swapId, u))
       /\ resp' = [Resp("message", u, NoId, swapId, 200, NoId)
                     EXCEPT !.made = id,
                            !.emits = {ToSwap("newMessage", swapId, Nil, id)} \cup
                                      (IF other # Nil
                                       THEN {ToUser("newMessageNotification", other, swapId, id)}
                                       ELSE {})]

\* socket.on("message")
SocketMessage(k, swapId) ==
  /\ resp = Idle
  /\ UNCHANGED ext
  /\ sockets[k] # Nil
  /\ MessageEffect(k, swapId)
  /\ UNCHANGED <<users, swaps, sessions, sockets>>

\* socket.on("typing")
SocketTyping(k, swapId) ==
  /\ resp = Idle
  /\ UNCHANGED ext
  /\ sockets[k] # Nil
  /\ LET u == sockets[k] IN
     resp' = IF FindSwap(swapId) = NoId \/ ~isParticipant(swaps[swapId], u)
             THEN Resp("typing", u, NoId, swapId, 403, NoId)
             ELSE [Resp("typing", u, NoId, swapId, 200, swapId)
                     EXCEPT !.emits = {ToSwap("userTyping", swapId, k, NoId)}]
  /\ UNCHANGED <<users, swaps, sessions, messages, sockets>>

\* Message.markAsRead
markAsRead(m, u) ==
  IF \E i \in 1..Len(m.readBy) : m.readBy[i] = u
  THEN [ok |-> FALSE, doc |-> m]
  ELSE [ok |-> TRUE, doc |-> [m EXCEPT !.readBy = Append(@, u)]]

\* socket.on("messageRead")
SocketMessageRead(k, messageId, swapId) ==
  /\ resp = Idle
  /\ UNCHANGED ext
  /\ /\ sockets[k] # Nil
     /\ LET u == sockets[k] IN
        IF FindMessage(messageId) = NoId \/ messages[messageId].swapId # swapId
        THEN /\ resp' = Resp("messageRead", u, messageId, swapId, 404, NoId)
             /\ UNCHANGED <<users, swaps, sessions, messages, sockets>>
        ELSE LET r == markAsRead(messages[messageId], u) IN
             /\ messages' = IF r.ok THEN [messages EXCEPT ![messageId] = r.doc] ELSE messages
             /\ resp' = [Resp("messageRead", u, messageId, swapId,
                              IF r.ok THEN 200 ELSE 204, messageId)
                           EXCEPT !.emits = IF r.ok
                                            THEN {ToSwap("messageRead", swapId, Nil, messageId)}
                                            ELSE {}]
             /\ UNCHANGED <<users, swaps, sessions, sockets>>

\* socket.on("swapUpdate"): the status of the event is written unchecked; a
\* value outside the schema's enum makes save() throw (status 500)
SocketSwapUpdate(k, swapId, status) ==
  /\ resp = Idle
  /\ UNCHANGED ext
  /\ /\ sockets[k] # Nil
     /\ LET u == sockets[k]
            fail(code) == /\ resp' = [Resp("swapUpdate", u, NoId, swapId, code, NoId)
                                        EXCEPT !.arg = status,
                                               !.emits = {ToSocket("error", k)}]
                          /\ UNCHANGED <<users, swaps, sessions, messages, sockets>>
        IN
        IF FindSwap(swapId) = NoId \/ ~isParticipant(swaps[swapId], u) THEN fail(403)
        ELSE IF status \notin SwapStatuses THEN fail(500)
        ELSE LET saved == SwapPreSave(swaps[swapId], [swaps[swapId] EXCEPT !.status = status])
                 mk == status = "accepted"
             IN
             /\ swaps' = [swaps EXCEPT ![swapId] = saved]
             /\ IF mk
                THEN /\ Len(sessions) < MaxSessions
                     /\ sessions' = Append(sessions, NewSession(swapId, saved, saved.duration))
                ELSE UNCHANGED sessions
             /\ resp' = [Resp("swapUpdate", u, NoId, swapId, 200, swapId)
                           EXCEPT !.arg = status,
                                  !.made = IF mk THEN Len(sessions) + 1 ELSE NoId,
                                  !.emits = {ToSwap("swapUpdated", swapId, Nil, NoId)} \cup
                                            (IF mk
                                             THEN {ToSwap("sessionCreated", swapId, Nil, NoId)}
                                             ELSE {})]
             /\ UNCHANGED <<users, messages, sockets>>

\* socket.on("sessionUpdate")
SocketSessionUpdate(k, sessionId, status) ==
  /\ resp = Idle
  /\ UNCHANGED ext
  /\ /\ sockets[k] # Nil
     /\ LET u == sockets[k]
            fail(code) == /\ resp' = [Resp("sessionUpdate", u, NoId, sessionId, code, NoId)
                                        EXCEPT !.arg = status,
                                               !.emits = {ToSocket("error", k)}]
                          /\ UNCHANGED <<users, swaps, sessions, messages, sockets>>
        IN
        IF FindSession(sessionId) = NoId \/ ~sessionIsParticipant(sessions[sessionId], u)
        THEN fail(403)
        ELSE IF status \notin SessionStatuses \cup {Nil} THEN fail(500)
        ELSE /\ sessions' = IF status # Nil
                            THEN [sessions EXCEPT ![sessionId].status = status]
                            ELSE sessions
             /\ resp' = [Resp("sessionUpdate", u, NoId, sessionId, 200, sessionId)
                           EXCEPT !.arg = status,
                                  !.emits = {ToSwap("sessionUpdated",
                                                    sessions[sessionId].swapId, Nil, NoId)}]
             /\ UNCHANGED <<users, swaps, messages, sockets>>

\* the server's dispatch of an event a client emits: the handler registered
\* under that name runs; an event without a listener is dropped
ServerOn(k, event, swapId) ==
  IF event = "joinSwap" THEN JoinSwapEffect(k, swapId) /\ UNCHANGED messages
  ELSE IF event = "leaveSwap" THEN LeaveSwapEffect(k, swapId) /\ UNCHANGED messages
  ELSE IF event = "message" THEN MessageEffect(k, swapId) /\ UNCHANGED <<rooms, userRooms>>
  ELSE /\ resp' = [Resp("dropped", sockets[k], NoId, swapId, 0, NoId) EXCEPT !.arg = event]
       /\ UNCHANGED <<rooms, messages, connectedUsers, userRooms>>

\* ChatProvider.joinChat(swapId)
ClientJoinChat(k, swapId) ==
  /\ resp = Idle
  /\ sockets[k] # Nil
  /\ ServerOn(k, JoinChatEvent, swapId)
  /\ activeChats' = [activeChats EXCEPT ![k] = @ \cup {swapId}]
  /\ UNCHANGED <<users, swaps, sessions, sockets, feedbacks, inflight, clientMessages, connectedUsers, registry, userDoc>>

\* ChatProvider.leaveChat(swapId)
ClientLeaveChat(k, swapId) ==
  /\ resp = Idle
  /\ sockets[k] # Nil
  /\ ServerOn(k, LeaveChatEvent, swapId)
  /\ activeChats' = [activeChats EXCEPT ![k] = @ \ {swapId}]
  /\ UNCHANGED <<users, swaps, sessions, sockets, feedbacks, inflight, clientMessages, connectedUsers, registry, userDoc>>

\* ChatProvider.sendMessage(swapId, content): the emit and the optimistic
\* append to the sender's own messages[swapId]
ClientSendMessage(k, swapId) ==
  /\ resp = Idle
  /\ sockets[k] # Nil
  /\ ServerOn(k, SendMessageEvent, swapId)
  /\ clientMessages' = [clientMessages EXCEPT ![k] = @ \cup {Optimistic(swapId)}]
  /\ UNCHANGED <<users, swaps, sessions, sockets, feedbacks, inflight, activeChats, registry, userDoc, connectedUsers>>

\* ============================================================ /api/auth
\* GET /api/auth/me: authenticateToken, then the handler answers 200
GetMe(hdr, fault) ==
  /\ resp = Idle
  /\ UNCHANGED ext
  /\ LET a == authenticateToken(hdr, fault) IN
     /\ resp' = [Resp("getMe", a.user, NoId, NoId, IF a.status = 0 THEN 200 ELSE a.status, NoId)
                   EXCEPT !.hdr = hdr, !.fault = fault, !.handler = (a.status = 0)]
     /\ UNCHANGED <<users, swaps, sessions, messages, sockets>>

\* POST /api/auth/login: credentials of a user's account, of the account
\* without database user ("ghost"), or wrong ones

Login(cred) ==
  /\ resp = Idle
  /\ UNCHANGED ext
  /\ LET code == IF cred = "wrong" THEN 401
                 ELSE IF cred = "ghost" THEN 404
                 ELSE IF ~canPerformAction(cred) THEN 403
                 ELSE 200
     IN
     /\ resp' = Resp("login", IF cred \in Users THEN cred ELSE Nil, NoId, NoId, code, NoId)
     /\ UNCHANGED <<users, swaps, sessions, messages, sockets>>

\* ------------------------------------------- register and delete account
\* the registration held in slot p, while it waits at an await
Registering(p) == {r \in registry.pending : r.slot = p}

\* POST /api/auth/register up to and including the await of User.findOne
RegisterCheck(p, email, valid, fault) ==
  /\ resp = Idle
  /\ Registering(p) = {}
  /\ LET answer(code) == /\ resp' = [Resp("register", Nil, NoId, NoId, code, NoId)
                                       EXCEPT !.arg = email, !.fault = fault]
                         /\ UNCHANGED registry
     IN
     IF ~valid THEN answer(400)
     ELSE IF fault # "none" THEN answer(500)
     ELSE IF \E d \in registry.db : d.email = email THEN answer(400)
     ELSE /\ registry' = [registry EXCEPT !.pending =
                             @ \cup {[slot |-> p, email |-> email, step |-> "signUp", id |-> NoId]}]
          /\ UNCHANGED resp
  /\ UNCHANGED <<users, swaps, sessions, messages, sockets>>
  /\ UNCHANGED <<feedbacks, inflight, rooms, activeChats, clientMessages, connectedUsers, userRooms, userDoc>>

\* supabase.auth.signUp of the registration in slot p: Supabase refuses an
\* email that has an account, or fails; a new account gets a fresh id
RegisterSignUp(p, fault) ==
  /\ resp = Idle
  /\ \E r \in Registering(p) :
       /\ r.step = "signUp"
       /\ IF fault # "none" \/ \E a \in registry.supabase : a.email = r.email
          THEN /\ registry' = [registry EXCEPT !.pending = @ \ {r}]
               /\ resp' = [Resp("register", Nil, NoId, NoId, 400, NoId)
                             EXCEPT !.arg = r.email, !.fault = fault]
          ELSE LET id == 1 + Cardinality(registry.supabase) + Cardinality(registry.db) IN
               /\ id <= MaxAccounts
               /\ \A a \in registry.supabase : a.id # id
               /\ \A d \in registry.db : d.supabaseId # id
               /\ registry' = [registry EXCEPT
                                 !.supabase = @ \cup {[id |-> id, email |-> r.email]},
                                 !.pending = (@ \ {r}) \cup {[r EXCEPT !.step = "save", !.id = id]}]
               /\ UNCHANGED resp
  /\ UNCHANGED <<users, swaps, sessions, messages, sockets>>
  /\ UNCHANGED <<feedbacks, inflight, rooms, activeChats, clientMessages, connectedUsers, userRooms, userDoc>>

\* newUser.save() and supabase.auth.signInWithPassword of the registration
\* in slot p; save() throws on a database error and on a duplicate
\* supabaseId or email (unique indexes)
RegisterSave(p, fault) ==
  /\ resp = Idle
  /\ \E r \in Registering(p) :
       /\ r.step = "save"
       /\ LET saved == /\ fault # "save"
                       /\ \A d \in registry.db : d.email # r.email /\ d.supabaseId # r.id
          IN
          /\ registry' = [registry EXCEPT
                            !.db = IF saved THEN @ \cup {[supabaseId |-> r.id, email |-> r.email]}
                                            ELSE @,
                            !.pending = @ \ {r}]
          /\ resp' = [Resp("register", Nil, NoId, NoId,
                            IF ~saved THEN 500 ELSE IF fault = "signIn" THEN 400 ELSE 201, NoId)
                        EXCEPT !.arg = r.email, !.fault = fault]
  /\ UNCHANGED <<users, swaps, sessions, messages, sockets>>
  /\ UNCHANGED <<feedbacks, inflight, rooms, activeChats, clientMessages, connectedUsers, userRooms, userDoc>>

\* DELETE /api/auth/me with the token of Supabase account id
DeleteMe(id, fault) ==
  /\ resp = Idle
  /\ LET answer(code) == resp' = [Resp("deleteMe", Nil, id, NoId, code, NoId) EXCEPT !.fault = fault]
         account == {a \in registry.supabase : a.id = id}
         doc == {d \in registry.db : d.supabaseId = id}
     IN
     IF account = {} THEN answer(403) /\ UNCHANGED registry
     ELSE IF doc = {} THEN answer(404) /\ UNCHANGED registry
     ELSE IF fault = "supabase" THEN answer(500) /\ UNCHANGED registry
     ELSE IF fault = "db"
          THEN /\ registry' = [registry EXCEPT !.supabase = @ \ account]
               /\ answer(500)
     ELSE /\ registry' = [registry EXCEPT !.supabase = @ \ account, !.db = @ \ doc]
          /\ answer(200)
  /\ UNCHANGED <<users, swaps, sessions, messages, sockets>>
  /\ UNCHANGED <<feedbacks, inflight, rooms, activeChats, clientMessages, connectedUsers, userRooms, userDoc>>

\* ------------------------------------------- User model (JWT variant)
\* a password value: the plaintext it comes from and how many times
\* bcrypt.hash has been applied to it
Hashed(plain) == [plain |-> plain, level |-> 1]

\* the frame of the steps of a document's save()
UserDocFrame ==
  /\ UNCHANGED <<users, swaps, sessions, messages, sockets, resp>>
  /\ UNCHANGED <<feedbacks, inflight, rooms, activeChats, registry, clientMessages>>
  /\ UNCHANGED <<connectedUsers, userRooms>>

\* User.findById: a fresh document with the stored password
LoadUser ==
  /\ ~userDoc.hashing /\ ~userDoc.writing
  /\ userDoc' = [userDoc EXCEPT !.password = userDoc.stored, !.modified = FALSE,
                                !.touched = FALSE, !.nextCalls = 0]
  /\ UserDocFrame

\* user.password = <new plaintext> by a caller
SetPassword(plain) ==
  /\ ~userDoc.hashing /\ ~userDoc.writing
  /\ userDoc' = [userDoc EXCEPT !.password = [plain |-> plain, level |-> 0],
                                !.modified = TRUE, !.touched = TRUE]
  /\ UserDocFrame

\* user.save() up to the first await of userSchema.pre("save"): with an
\* unmodified password next() is called, which lets the save go on, and the
\* hook runs on to bcrypt all the same
PreSave ==
  /\ ~userDoc.hashing /\ ~userDoc.writing
  /\ userDoc' = [userDoc EXCEPT !.hashing = TRUE,
                                !.writing = ~userDoc.modified,
                                !.nextCalls = IF userDoc.modified THEN 0 ELSE 1]
  /\ UserDocFrame

\* the rest of the hook: this.password = await bcrypt.hash(this.password, salt);
\* the end of the async hook lets the save go on if next() has not
PreSaveHash ==
  /\ userDoc.hashing
  /\ userDoc.password.level < MaxHashes
  /\ userDoc' = [userDoc EXCEPT !.password = [@ EXCEPT !.level = @ + 1], !.modified = TRUE,
                                !.hashing = FALSE,
                                !.writing = @ \/ userDoc.nextCalls = 0]
  /\ UserDocFrame

\* the save proper: the modified paths are written and marked clean
WriteUser ==
  /\ userDoc.writing
  /\ userDoc' = [userDoc EXCEPT !.stored = IF userDoc.modified THEN userDoc.password ELSE @,
                                !.modified = FALSE, !.touched = FALSE, !.writing = FALSE]
  /\ UserDocFrame

\* =========================================================== /api/admin
\* x-auth-token values: absent, not verifiable, or a verified payload
\* { user: { id, role? } }; "u9" is the id of a deleted user
JwtTokens ==
  {[kind |-> "none", id |-> Nil, role |-> Nil], [kind |-> "bad", id |-> Nil, role |-> Nil]}
  \cup {[kind |-> "ok", id |-> i, role |-> r] : i \in (Users \cup {"u9"}), r \in Roles \cup {Nil}}

NoReqUser == [set |-> FALSE, id |-> Nil, role |-> Nil, profile |-> Nil]

\* auth (JWT variant): req.user = decoded.user, req.user.profile = the
\* database document looked up by id
auth(jwt) ==
  IF jwt.kind = "none" THEN [status |-> 401, user |-> NoReqUser]
  ELSE IF jwt.kind = "bad" THEN [status |-> 401, user |-> NoReqUser]
  ELSE [status |-> 0,
        user |-> [set |-> TRUE, id |-> jwt.id, role |-> jwt.role,
                  profile |-> IF jwt.id \in Users THEN jwt.id ELSE Nil]]

\* variant of requireRole that only checks that req.user is set
requireRoleJwtPresenceOnly(role, reqUser) == IF ~reqUser.set THEN 401 ELSE 0

\* requireRole (JWT variant) reads req.user.profile.role; a null profile
\* makes the property access throw, which Express answers with 500
requireRoleJwt(role, reqUser) ==
  IF ~reqUser.set THEN 401
  ELSE IF reqUser.profile = Nil THEN 500
  ELSE IF users[reqUser.profile].role # role /\ users[reqUser.profile].role # "admin" THEN 403
  ELSE 0

\* requireAdmin / requireModerator (Supabase variant) read req.user.role
requireAdmin(reqUser) ==
  IF ~reqUser.set THEN 401
  ELSE IF reqUser.role # "admin" THEN 403
  ELSE 0

requireModerator(reqUser) ==
  IF ~reqUser.set THEN 401
  ELSE IF reqUser.role \notin {"admin", "moderator"} THEN 403
  ELSE 0

\* variant of requireAdminJwt that reads req.user.role
requireAdminJwtReadsRole(reqUser) == requireAdmin(reqUser)

\* requireAdmin (JWT variant) reads req.user.profile.role; an absent profile
\* makes the property access throw, which Express answers with 500
requireAdminJwt(reqUser) ==
  IF ~reqUser.set THEN 401
  ELSE IF reqUser.profile = Nil THEN 500
  ELSE IF users[reqUser.profile].role # "admin" THEN 403
  ELSE 0

\* req.user as authenticateToken leaves it: the database document, which
\* has a role and no profile
SupabaseReqUser(a) ==
  IF a.status = 0 THEN [set |-> TRUE, id |-> a.user, role |-> users[a.user].role, profile |-> Nil]
  ELSE NoReqUser

\* one caller presented to both middleware stacks: user u with a valid token
\* of each kind (the JWT carrying the role claim claimRole), or with a token
\* neither accepts.  jj and ss are the two stacks as written; js is the JWT
\* auth followed by the Supabase requireAdmin, sj the reverse
TwoAuth(u, tokenOk, claimRole) ==
  /\ resp = Idle
  /\ UNCHANGED ext
  /\ LET jwt == IF tokenOk THEN [kind |-> "ok", id |-> u, role |-> claimRole]
                           ELSE [kind |-> "bad", id |-> Nil, role |-> Nil]
         hdr == IF tokenOk
                THEN <<"Bearer", CHOOSE t \in UserTokens : SupabaseAccount[t] = supabaseIdOf[u]>>
                ELSE <<"Bearer", "bad">>
         a == auth(jwt)
         b == authenticateToken(hdr, "none")
         then(first, second) == IF first # 0 THEN first ELSE second
     IN
     resp' = [Resp("twoAuth", u, NoId, NoId, 0, NoId) EXCEPT
                !.arg = IF tokenOk THEN "ok" ELSE "bad",
                !.hdr = <<claimRole>>,
                !.outcomes = [jwtAuth |-> a.status, supAuth |-> b.status,
                              jj |-> then(a.status, requireAdminJwt(a.user)),
                              ss |-> then(b.status, requireAdmin(SupabaseReqUser(b))),
                              js |-> then(a.status, requireAdmin(a.user)),
                              sj |-> then(b.status, requireAdminJwt(SupabaseReqUser(b)))]]
  /\ UNCHANGED <<users, swaps, sessions, messages, sockets>>

AdminOnlyReads == {"listUsers", "getUser", "stats", "popularSkills", "userActivity", "logs"}
AdminOnlyRoutes == AdminOnlyReads \cup {"updateUser", "banUser", "unbanUser"}
ModeratorReads == {"flaggedMessages", "flaggedFeedback"}
ModeratorRoutes == ModeratorReads \cup {"deleteMessage"}

\* app.use("/api/admin", auth, requireRole("admin"), adminRoutes) followed by
\* the guard the router puts in front of the route; status 0 = handler runs
AdminGate(jwt, route) ==
  LET a == auth(jwt) IN
  IF a.status # 0 THEN a.status
  ELSE LET m == requireRoleJwt("admin", a.user) IN
       IF m # 0 THEN m
       ELSE IF route \in AdminOnlyRoutes THEN requireAdmin(a.user)
            ELSE requireModerator(a.user)

\* the database role of the caller a token identifies, Nil for no caller;
\* the response record keeps it in arg and the token's role claim in hdr
CallerRole(jwt) == IF jwt.kind = "ok" /\ jwt.id \in Users THEN users[jwt.id].role ELSE Nil

AdminResp(jwt, route, status, reached) ==
  [Resp(route, IF jwt.kind = "ok" THEN jwt.id ELSE Nil, NoId, NoId, status, NoId)
     EXCEPT !.arg = CallerRole(jwt), !.handler = reached,
            !.hdr = IF jwt.kind = "ok" THEN <<jwt.role>> ELSE <<>>]

\* GET routes of the admin router: /users, /users/:id, /stats, ...,
\* /messages/flagged, /feedback/flagged
AdminRead(jwt, route) ==
  /\ resp = Idle
  /\ UNCHANGED ext
  /\ LET g == AdminGate(jwt, route) IN
     /\ resp' = AdminResp(jwt, route, IF g = 0 THEN 200 ELSE g, g = 0)
     /\ UNCHANGED <<users, swaps, sessions, messages, sockets>>

\* PUT /api/admin/users/:id; absent body fields are Nil
FlagInputs == {Nil, "true", "false"}

AdminUpdateUser(jwt, target, role, isActive, isBanned) ==
  /\ resp = Idle
  /\ UNCHANGED ext
  /\ LET g == AdminGate(jwt, "updateUser")
         answer(code) == /\ resp' = AdminResp(jwt, "updateUser", code, g = 0)
                         /\ UNCHANGED <<users, swaps, sessions, messages, sockets>>
     IN
     IF g # 0 THEN answer(g)
     ELSE IF role \notin Roles \cup {Nil} THEN answer(400)
     ELSE IF target \notin Users THEN answer(404)
     ELSE /\ users' = [users EXCEPT
                         ![target].role = IF role # Nil THEN role ELSE @,
                         ![target].isActive = IF isActive # Nil THEN isActive = "true" ELSE @,
                         ![target].isBanned = IF isBanned # Nil THEN isBanned = "true" ELSE @]
          /\ resp' = AdminResp(jwt, "updateUser", 200, TRUE)
          /\ UNCHANGED <<swaps, sessions, messages, sockets>>

\* banUntil of a user: null, or the whole days left until it (0: it has passed)
NoBanUntil == -1

\* POST /api/admin/users/:id/ban; duration 0 is an absent body.duration,
\* else a number of days
AdminBanUser(jwt, target, reasonOk, duration) ==
  /\ resp = Idle
  /\ UNCHANGED ext
  /\ LET g == AdminGate(jwt, "banUser")
         answer(code) == /\ resp' = AdminResp(jwt, "banUser", code, g = 0)
                         /\ UNCHANGED <<users, swaps, sessions, messages, sockets>>
     IN
     IF g # 0 THEN answer(g)
     ELSE IF ~reasonOk THEN answer(400)
     ELSE IF target \notin Users THEN answer(404)
     ELSE /\ users' = [users EXCEPT ![target].isBanned = TRUE,
                                    ![target].banUntil = IF duration # 0 THEN duration ELSE @]
          /\ resp' = [AdminResp(jwt, "banUser", 200, TRUE) EXCEPT !.target = target]
          /\ UNCHANGED <<swaps, sessions, messages, sockets>>

\* POST /api/admin/users/:id/unban
AdminUnbanUser(jwt, target) ==
  /\ resp = Idle
  /\ UNCHANGED ext
  /\ LET g == AdminGate(jwt, "unbanUser")
         answer(code) == /\ resp' = AdminResp(jwt, "unbanUser", code, g = 0)
                         /\ UNCHANGED <<users, swaps, sessions, messages, sockets>>
     IN
     IF g # 0 THEN answer(g)
     ELSE IF target \notin Users THEN answer(404)
     ELSE /\ users' = [users EXCEPT ![target].isBanned = FALSE,
                                    ![target].banUntil = NoBanUntil]
          /\ resp' = [AdminResp(jwt, "unbanUser", 200, TRUE) EXCEPT !.target = target]
          /\ UNCHANGED <<swaps, sessions, messages, sockets>>

\* a day passes: every banUntil that lies ahead comes a day nearer
DayPasses ==
  /\ resp = Idle
  /\ \E u \in Users : users[u].banUntil > 0
  /\ users' = [u \in Users |->
                [users[u] EXCEPT !.banUntil = IF @ > 0 THEN @ - 1 ELSE @]]
  /\ UNCHANGED <<swaps, sessions, messages, sockets, resp>>
  /\ UNCHANGED ext

\* DELETE /api/admin/messages/:id: Message.findByIdAndDelete removes the
\* document; its slot stays so that the other ids keep their meaning
AdminDeleteMessage(jwt, messageId) ==
  /\ resp = Idle
  /\ UNCHANGED ext
  /\ LET g == AdminGate(jwt, "deleteMessage")
         answer(code) == /\ resp' = AdminResp(jwt, "deleteMessage", code, g = 0)
                         /\ UNCHANGED <<users, swaps, sessions, messages, sockets>>
     IN
     IF g # 0 THEN answer(g)
     ELSE IF FindMessage(messageId) = NoId THEN answer(404)
     ELSE /\ messages' = [messages EXCEPT ![messageId].present = FALSE]
          /\ resp' = AdminResp(jwt, "deleteMessage", 200, TRUE)
          /\ UNCHANGED <<users, swaps, sessions, sockets>>

\* ============================================================ /api/messages
maxEditTime == 5      \* minutes

\* the clock advances by dt minutes
Tick(dt) ==
  /\ resp = Idle
  /\ \E i \in 1..Len(messages) : messages[i].age + dt <= MaxAge
  /\ messages' = [i \in 1..Len(messages) |->
                    IF messages[i].age + dt <= MaxAge
                    THEN [messages[i] EXCEPT !.age = @ + dt]
                    ELSE [messages[i] EXCEPT !.age = MaxAge]]
  /\ UNCHANGED <<users, swaps, sessions, sockets, resp>>
  /\ UNCHANGED ext

\* variant of editMessage that replaces the content without marking the edit
editMessageContentOnly(m, newContent) ==
  IF ~m.isDeleted
  THEN [ok |-> TRUE, doc |-> [m EXCEPT !.content = newContent]]
  ELSE [ok |-> FALSE, doc |-> m]

\* messageSchema.methods.editMessage
editMessage(m, newContent) ==
  IF ~m.isDeleted
  THEN [ok |-> TRUE, doc |-> [m EXCEPT !.content = newContent, !.isEdited = TRUE]]
  ELSE [ok |-> FALSE, doc |-> m]

\* messageSchema.methods.deleteMessage
deleteMessage(m, u) ==
  IF ~m.isDeleted
  THEN [ok |-> TRUE, doc |-> [m EXCEPT !.isDeleted = TRUE, !.deletedBy = u]]
  ELSE [ok |-> FALSE, doc |-> m]

\* variant of findBySwapId without the isDeleted filter
findBySwapIdAll(swapId) ==
  {i \in 1..Len(messages) : messages[i].present /\ messages[i].swapId = swapId}

\* Message.findBySwapId / countDocuments({ swapId, isDeleted: false })
findBySwapId(swapId) ==
  {i \in 1..Len(messages) :
     messages[i].present /\ messages[i].swapId = swapId /\ ~messages[i].isDeleted}

\* Message.findUnreadForUser
findUnreadForUser(u, swapId) ==
  {i \in 1..Len(messages) :
     /\ messages[i].present
     /\ messages[i].swapId = swapId
     /\ messages[i].senderId # u
     /\ ~messages[i].isDeleted
     /\ \A j \in 1..Len(messages[i].readBy) : messages[i].readBy[j] # u}

\* POST /api/messages
PostMessage(hdr, swapId, content) ==
  /\ resp = Idle
  /\ UNCHANGED ext
  /\ LET a == authenticateToken(hdr, "none")
         fail(code) == /\ resp' = [Resp("postMessage", a.user, NoId, swapId, code, NoId)
                                     EXCEPT !.arg = content]
                       /\ UNCHANGED <<users, swaps, sessions, messages, sockets>>
     IN
     IF a.status # 0 THEN fail(a.status)
     ELSE IF content \notin Contents THEN fail(400)
     ELSE IF FindSwap(swapId) = NoId \/ ~isParticipant(swaps[swapId], a.user) THEN fail(404)
     ELSE /\ Len(messages) < MaxMessages
          /\ messages' = Append(messages, [NewMessage(swapId, a.user) EXCEPT !.content = content])
          /\ resp' = [Resp("postMessage", a.user, NoId, swapId, 201, NoId)
                        EXCEPT !.arg = content, !.made = Len(messages) + 1]
          /\ UNCHANGED <<users, swaps, sessions, sockets>>

\* PUT /api/messages/:id
PutMessage(hdr, id, content) ==
  /\ resp = Idle
  /\ UNCHANGED ext
  /\ LET a == authenticateToken(hdr, "none")
         fail(code) == /\ resp' = [Resp("putMessage", a.user, id, NoId, code, NoId)
                                     EXCEPT !.arg = content]
                       /\ UNCHANGED <<users, swaps, sessions, messages, sockets>>
     IN
     IF a.status # 0 THEN fail(a.status)
     ELSE IF content \notin Contents THEN fail(400)
     ELSE IF FindMessage(id) = NoId THEN fail(404)
     ELSE IF messages[id].senderId # a.user THEN fail(403)
     ELSE IF messages[id].isDeleted THEN fail(400)
     ELSE IF messages[id].age > maxEditTime THEN fail(400)
     ELSE LET r == editMessage(messages[id], content) IN
          IF ~r.ok THEN fail(400)
          ELSE /\ messages' = [messages EXCEPT ![id] = r.doc]
               /\ resp' = [Resp("putMessage", a.user, id, NoId, 200, id)
                             EXCEPT !.arg = content]
               /\ UNCHANGED <<users, swaps, sessions, sockets>>

\* DELETE /api/messages/:id
DelMessage(hdr, id) ==
  /\ resp = Idle
  /\ UNCHANGED ext
  /\ LET a == authenticateToken(hdr, "none")
         fail(code) == /\ resp' = Resp("delMessage", a.user, id, NoId, code, NoId)
                       /\ UNCHANGED <<users, swaps, sessions, messages, sockets>>
     IN
     IF a.status # 0 THEN fail(a.status)
     ELSE IF FindMessage(id) = NoId THEN fail(404)
     ELSE IF messages[id].senderId # a.user /\ users[a.user].role # "admin" THEN fail(403)
     ELSE LET r == deleteMessage(messages[id], a.user) IN
          IF ~r.ok THEN fail(400)
          ELSE /\ messages' = [messages EXCEPT ![id] = r.doc]
               /\ resp' = Resp("delMessage", a.user, id, NoId, 200, id)
               /\ UNCHANGED <<users, swaps, sessions, sockets>>

\* PUT /api/messages/:id/read
ReadMessage(hdr, id) ==
  /\ resp = Idle
  /\ UNCHANGED ext
  /\ LET a == authenticateToken(hdr, "none")
         fail(code) == /\ resp' = Resp("readMessage", a.user, id, NoId, code, NoId)
                       /\ UNCHANGED <<users, swaps, sessions, messages, sockets>>
     IN
     IF a.status # 0 THEN fail(a.status)
     ELSE IF FindMessage(id) = NoId THEN fail(404)
     ELSE IF FindSwap(messages[id].swapId) = NoId
             \/ ~isParticipant(swaps[messages[id].swapId], a.user) THEN fail(403)
     ELSE LET r == markAsRead(messages[id], a.user) IN
          /\ messages' = IF r.ok THEN [messages EXCEPT ![id] = r.doc] ELSE messages
          /\ resp' = Resp("readMessage", a.user, id, NoId, 200, id)
          /\ UNCHANGED <<users, swaps, sessions, sockets>>

\* authenticateToken followed by requireSwapParticipation on the routes
\* declared with "/swap/:swapId"
SwapIdParams(swapId) == [swapId |-> swapId]

MessageSwapGate(hdr, swapId) ==
  LET a == authenticateToken(hdr, "none") IN
  IF a.status # 0 THEN [status |-> a.status, user |-> Nil, swap |-> NoId]
  ELSE LET g == requireSwapParticipation(a.user, SwapIdParams(swapId), <<>>) IN
       [status |-> g.status, user |-> a.user, swap |-> g.swap]

\* GET /api/messages/swap/:swapId: the page of messages and pagination.total
ListMessages(hdr, swapId) ==
  /\ resp = Idle
  /\ UNCHANGED ext
  /\ LET g == MessageSwapGate(hdr, swapId) IN
     /\ resp' = IF g.status # 0
                THEN Resp("listMessages", g.user, swapId, NoId, g.status, NoId)
                ELSE [Resp("listMessages", g.user, swapId, NoId, 200, g.swap)
                        EXCEPT !.items = findBySwapId(swapId),
                               !.count = Cardinality(findBySwapId(swapId))]
     /\ UNCHANGED <<users, swaps, sessions, messages, sockets>>

\* GET /api/messages/swap/:swapId/unread
UnreadCount(hdr, swapId) ==
  /\ resp = Idle
  /\ UNCHANGED ext
  /\ LET g == MessageSwapGate(hdr, swapId) IN
     /\ resp' = IF g.status # 0
                THEN Resp("unreadCount", g.user, swapId, NoId, g.status, NoId)
                ELSE [Resp("unreadCount", g.user, swapId, NoId, 200, g.swap)
                        EXCEPT !.items = findUnreadForUser(g.user, swapId),
                               !.count = Cardinality(findUnreadForUser(g.user, swapId))]
     /\ UNCHANGED <<users, swaps, sessions, messages, sockets>>


\* ============================================================ errorHandler
ErrNames == {"Error", "ValidationError", "CastError", "JsonWebTokenError",
             "TokenExpiredError", "MongoServerError"}
ErrCodes == {0, 11000}
ErrMessages == {Nil, "boom"}

Errors ==
  {[name |-> n, code |-> c, statusCode |-> sc, message |-> m,
    hasErrors |-> TRUE, errors |-> fl, keyField |-> kf] :
      n \in ErrNames, c \in ErrCodes, sc \in {0, 404, 409}, m \in ErrMessages,
      fl \in {<<"name is required">>, <<"name is required", "email is invalid">>}, kf \in {"email"}}
  \cup
  {[name |-> n, code |-> c, statusCode |-> 0, message |-> m,
    hasErrors |-> FALSE, errors |-> <<>>, keyField |-> kf] :
      n \in ErrNames, c \in ErrCodes, m \in ErrMessages, kf \in {Nil, "email"}}

\* errorHandler, assignment by assignment; threw stands for a TypeError
\* raised inside the handler (Object.values / Object.keys of undefined),
\* which Express answers itself with status 500 and no JSON body
errorHandler(err) ==
  LET r0 == [statusCode |-> 500, message |-> "Internal Server Error",
             details |-> NoDetails, threw |-> FALSE]
      r1 == IF err.name = "ValidationError"
            THEN IF err.hasErrors
                 THEN [r0 EXCEPT !.statusCode = 400, !.message = "Validation Error",
                                 !.details = [kind |-> "list", list |-> err.errors, text |-> Nil]]
                 ELSE [r0 EXCEPT !.threw = TRUE]
            ELSE r0
      r2 == IF err.code = 11000
            THEN IF err.keyField # Nil
                 THEN [r1 EXCEPT !.statusCode = 400, !.message = "Duplicate field value",
                                 !.details = [kind |-> "text", list |-> <<>>,
                                              text |-> "field already exists"]]
                 ELSE [r1 EXCEPT !.threw = TRUE]
            ELSE r1
      r3 == IF err.name = "CastError"
            THEN [r2 EXCEPT !.statusCode = 400, !.message = "Invalid ID format"] ELSE r2
      r4 == IF err.name = "JsonWebTokenError"
            THEN [r3 EXCEPT !.statusCode = 401, !.message = "Invalid token"] ELSE r3
      r5 == IF err.name = "TokenExpiredError"
            THEN [r4 EXCEPT !.statusCode = 401, !.message = "Token expired"] ELSE r4
      r6 == IF err.statusCode # 0
            THEN [r5 EXCEPT !.statusCode = err.statusCode, !.message = err.message] ELSE r5
      r7 == IF err.message # Nil /\ err.statusCode = 0
            THEN [r6 EXCEPT !.message = err.message] ELSE r6
  IN IF r7.threw
     THEN [status |-> 500, body |-> NoBody]
     ELSE [status |-> r7.statusCode, body |-> [error |-> r7.message, details |-> r7.details]]

\* a route handler rejects with err; asyncHandler passes it to errorHandler
HandleError(err) ==
  /\ resp = Idle
  /\ UNCHANGED ext
  /\ LET out == errorHandler(err) IN
     resp' = [Resp("error", Nil, NoId, NoId, out.status, NoId)
                EXCEPT !.err = err, !.body = out.body]
  /\ UNCHANGED <<users, swaps, sessions, messages, sockets>>

\* ============================================================ /api/feedback
Ratings == {1, 5}

NewFeedback(sessionId, swapId, from, to, rating) ==
  [sessionId |-> sessionId, swapId |-> swapId, fromUserId |-> from, toUserId |-> to,
   rating |-> rating, isPublic |-> TRUE, isFlagged |-> FALSE, present |-> TRUE,
   flaggedBy |-> {}, helpful |-> 0, notHelpful |-> 0, voters |-> <<>>]

\* Feedback.findOne({ sessionId, fromUserId, toUserId })
ExistingFeedback(sessionId, from, to) ==
  \E i \in 1..Len(feedbacks) :
     /\ feedbacks[i].present
     /\ feedbacks[i].sessionId = sessionId
     /\ feedbacks[i].fromUserId = from
     /\ feedbacks[i].toUserId = to

RECURSIVE SumRatings(_, _, _)
SumRatings(fs, to, i) ==
  IF i = 0 THEN [sum |-> 0, n |-> 0]
  ELSE LET r == SumRatings(fs, to, i - 1) IN
       IF fs[i].present /\ fs[i].toUserId = to /\ fs[i].isPublic /\ ~fs[i].isFlagged
       THEN [sum |-> r.sum + fs[i].rating, n |-> r.n + 1]
       ELSE r

\* Feedback.getAverageRating: the $avg of the public, unflagged ratings of a
\* user, kept as the exact fraction sum / n (0 when there is none)
getAverageRating(fs, to) == SumRatings(fs, to, Len(fs))

\* updateUserRating: User.findByIdAndUpdate(userId, { rating: average })
updateUserRating(us, fs, to) ==
  IF to \in Users THEN [us EXCEPT ![to].rating = getAverageRating(fs, to)] ELSE us

\* POST /api/feedback up to and including the await of Feedback.findOne: the
\* checks of the handler.  A request that passes them is suspended until its
\* save() runs; other requests are handled in between.
SubmitFeedback(n, hdr, sessionId, toUserId, rating) ==
  /\ resp = Idle
  /\ FreeSlot(n)
  /\ LET a == authenticateToken(hdr, "none")
         fail(code) == /\ resp' = [Resp("createFeedback", a.user, NoId, sessionId, code, NoId)
                                     EXCEPT !.target = toUserId]
                       /\ UNCHANGED inflight
     IN
     IF a.status # 0 THEN fail(a.status)
     ELSE IF rating \notin Ratings THEN fail(400)
     ELSE IF FindSession(sessionId) = NoId
             \/ ~sessionIsParticipant(sessions[sessionId], a.user) THEN fail(404)
     ELSE IF sessions[sessionId].status # "completed" THEN fail(400)
     ELSE IF toUserId \notin Users THEN fail(404)
     ELSE IF a.user = toUserId THEN fail(400)
     ELSE IF ExistingFeedback(sessionId, a.user, toUserId) THEN fail(400)
     ELSE /\ inflight' = inflight \cup
                 {[n |-> n, op |-> "createFeedback", user |-> a.user,
                   doc |-> NewFeedback(sessionId, sessions[sessionId].swapId,
                                       a.user, toUserId, rating)]}
          /\ UNCHANGED resp
  /\ UNCHANGED <<users, swaps, sessions, messages, sockets, feedbacks>>
  /\ UNCHANGED <<rooms, activeChats, registry, userDoc, clientMessages, connectedUsers, userRooms>>

\* POST /api/feedback from feedback.save() to the 201 response
SaveFeedback(n) ==
  /\ resp = Idle
  /\ \E r \in inflight :
       /\ r.n = n
       /\ r.op = "createFeedback"
       /\ Len(feedbacks) < MaxFeedbacks
       /\ feedbacks' = Append(feedbacks, r.doc)
       /\ users' = updateUserRating(users, feedbacks', r.doc.toUserId)
       /\ inflight' = inflight \ {r}
       /\ resp' = [Resp("createFeedback", r.user, NoId, r.doc.sessionId, 201, NoId)
                     EXCEPT !.target = r.doc.toUserId, !.made = Len(feedbacks) + 1]
  /\ UNCHANGED <<swaps, sessions, messages, sockets>>
  /\ UNCHANGED <<rooms, activeChats, registry, userDoc, clientMessages, connectedUsers, userRooms>>


\* Feedback.findById: the document's id, or NoId when there is none
FindFeedback(id) == IF id \in 1..Len(feedbacks) /\ feedbacks[id].present THEN id ELSE NoId

\* PUT /api/feedback/:id; rating 0 is an absent body.rating, 9 one outside
\* 1..5; isPublic ranges over FlagInputs
UpdateFeedback(hdr, id, rating, isPublic) ==
  /\ resp = Idle
  /\ LET a == authenticateToken(hdr, "none")
         fail(code) == /\ resp' = Resp("updateFeedback", a.user, id, NoId, code, NoId)
                       /\ UNCHANGED <<users, feedbacks>>
     IN
     IF a.status # 0 THEN fail(a.status)
     ELSE IF rating \notin Ratings \cup {0} THEN fail(400)
     ELSE IF FindFeedback(id) = NoId THEN fail(404)
     ELSE IF feedbacks[id].fromUserId # a.user THEN fail(403)
     ELSE /\ feedbacks' = [feedbacks EXCEPT
                             ![id].rating = IF rating # 0 THEN rating ELSE @,
                             ![id].isPublic = IF isPublic # Nil THEN isPublic = "true" ELSE @]
          /\ users' = updateUserRating(users, feedbacks', feedbacks[id].toUserId)
          /\ resp' = Resp("updateFeedback", a.user, id, NoId, 200, id)
  /\ UNCHANGED <<swaps, sessions, messages, sockets>>
  /\ UNCHANGED <<inflight, rooms, activeChats, registry, userDoc, clientMessages, connectedUsers, userRooms>>

\* DELETE /api/feedback/:id: Feedback.findByIdAndDelete removes the document;
\* its slot stays so that the other ids keep their meaning
DeleteFeedback(hdr, id) ==
  /\ resp = Idle
  /\ LET a == authenticateToken(hdr, "none")
         fail(code) == /\ resp' = Resp("deleteFeedback", a.user, id, NoId, code, NoId)
                       /\ UNCHANGED <<users, feedbacks>>
     IN
     IF a.status # 0 THEN fail(a.status)
     ELSE IF FindFeedback(id) = NoId THEN fail(404)
     ELSE IF feedbacks[id].fromUserId # a.user /\ users[a.user].role # "admin" THEN fail(403)
     ELSE /\ feedbacks' = [feedbacks EXCEPT ![id].present = FALSE]
          /\ users' = updateUserRating(users, feedbacks', feedbacks[id].toUserId)
          /\ resp' = Resp("deleteFeedback", a.user, id, NoId, 200, id)
  /\ UNCHANGED <<swaps, sessions, messages, sockets>>
  /\ UNCHANGED <<inflight, rooms, activeChats, registry, userDoc, clientMessages, connectedUsers, userRooms>>

\* DELETE /api/admin/feedback/:id (moderator+)
AdminDeleteFeedback(jwt, id) ==
  /\ resp = Idle
  /\ LET g == AdminGate(jwt, "deleteFeedback")
         answer(code) == /\ resp' = AdminResp(jwt, "deleteFeedback", code, g = 0)
                         /\ UNCHANGED <<users, feedbacks>>
     IN
     IF g # 0 THEN answer(g)
     ELSE IF FindFeedback(id) = NoId THEN answer(404)
     ELSE /\ feedbacks' = [feedbacks EXCEPT ![id].present = FALSE]
          /\ users' = updateUserRating(users, feedbacks', feedbacks[id].toUserId)
          /\ resp' = AdminResp(jwt, "deleteFeedback", 200, TRUE)
  /\ UNCHANGED <<swaps, sessions, messages, sockets>>
  /\ UNCHANGED <<inflight, rooms, activeChats, registry, userDoc, clientMessages, connectedUsers, userRooms>>

\* feedbackSchema.methods.flagFeedback
flagFeedback(f, u) ==
  IF u \notin f.flaggedBy
  THEN [ok |-> TRUE, doc |-> [f EXCEPT !.flaggedBy = @ \cup {u}, !.isFlagged = TRUE]]
  ELSE [ok |-> FALSE, doc |-> f]

\* POST /api/feedback/:id/flag
FlagFeedback(hdr, id, reasonOk) ==
  /\ resp = Idle
  /\ LET a == authenticateToken(hdr, "none")
         fail(code) == /\ resp' = Resp("flagFeedback", a.user, id, NoId, code, NoId)
                       /\ UNCHANGED feedbacks
     IN
     IF a.status # 0 THEN fail(a.status)
     ELSE IF ~reasonOk THEN fail(400)
     ELSE IF FindFeedback(id) = NoId THEN fail(404)
     ELSE LET r == flagFeedback(feedbacks[id], a.user) IN
          IF ~r.ok THEN fail(400)
          ELSE /\ feedbacks' = [feedbacks EXCEPT ![id] = r.doc]
               /\ resp' = Resp("flagFeedback", a.user, id, NoId, 200, id)
  /\ UNCHANGED <<users, swaps, sessions, messages, sockets>>
  /\ UNCHANGED <<inflight, rooms, activeChats, registry, userDoc, clientMessages, connectedUsers, userRooms>>


\* helpfulVotes.voters.find(voter => voter.userId.equals(userId)): the index
\* of the first entry of the user, 0 when there is none
FindVoter(f, u) ==
  IF \E k \in 1..Len(f.voters) : f.voters[k].userId = u
  THEN CHOOSE k \in 1..Len(f.voters) :
         /\ f.voters[k].userId = u
         /\ \A j \in 1..(k - 1) : f.voters[j].userId # u
  ELSE 0

\* variant of addHelpfulVote that does not take the old vote off its counter
addHelpfulVoteNoDecrement(f, u, vote, at) ==
  LET k == FindVoter(f, u)
      up(g) == IF vote = "helpful" THEN [g EXCEPT !.helpful = @ + 1]
                                   ELSE [g EXCEPT !.notHelpful = @ + 1]
  IN IF k # 0
     THEN IF f.voters[k].vote # vote
          THEN up([f EXCEPT !.voters[k].vote = vote, !.voters[k].votedAt = at])
          ELSE f
     ELSE up([f EXCEPT !.voters = Append(@, [userId |-> u, vote |-> vote, votedAt |-> at])])

\* feedbackSchema.methods.addHelpfulVote (it always returns true)
addHelpfulVote(f, u, vote, at) ==
  LET k == FindVoter(f, u)
      down(g) == IF f.voters[k].vote = "helpful" THEN [g EXCEPT !.helpful = @ - 1]
                                                 ELSE [g EXCEPT !.notHelpful = @ - 1]
      up(g) == IF vote = "helpful" THEN [g EXCEPT !.helpful = @ + 1]
                                   ELSE [g EXCEPT !.notHelpful = @ + 1]
  IN IF k # 0
     THEN IF f.voters[k].vote # vote
          THEN up([down(f) EXCEPT !.voters[k].vote = vote, !.voters[k].votedAt = at])
          ELSE f
     ELSE up([f EXCEPT !.voters = Append(@, [userId |-> u, vote |-> vote, votedAt |-> at])])

\* POST /api/feedback/:id/helpful-vote, handled at time at (the clock never
\* runs backwards); a vote of Nil is a missing body.vote
VoteFeedback(hdr, id, vote, at) ==
  /\ resp = Idle
  /\ \A i \in 1..Len(feedbacks) : \A k \in 1..Len(feedbacks[i].voters) :
        feedbacks[i].voters[k].votedAt <= at
  /\ LET a == authenticateToken(hdr, "none")
         answer(code, doc) == resp' = [Resp("helpfulVote", a.user, id, NoId, code, doc)
                                        EXCEPT !.arg = vote]
     IN
     IF a.status # 0 THEN answer(a.status, NoId) /\ UNCHANGED feedbacks
     ELSE IF vote \notin {"helpful", "not_helpful"} THEN answer(400, NoId) /\ UNCHANGED feedbacks
     ELSE IF FindFeedback(id) = NoId THEN answer(404, NoId) /\ UNCHANGED feedbacks
     ELSE /\ feedbacks' = [feedbacks EXCEPT ![id] = addHelpfulVote(@, a.user, vote, at)]
          /\ answer(200, id)
  /\ UNCHANGED <<users, swaps, sessions, messages, sockets>>
  /\ UNCHANGED <<inflight, rooms, activeChats, registry, userDoc, clientMessages, connectedUsers, userRooms>>


\* ==================================================================== Init
InitRole == [u1 |-> "admin", u2 |-> "moderator", u3 |-> "user"]

Init ==
  /\ users = [u \in Users |-> [role |-> InitRole[u], isActive |-> TRUE, isBanned |-> FALSE,
                               banUntil |-> NoBanUntil,
                               completedSwaps |-> 0, totalSessions |-> 0,
                               rating |-> [sum |-> 0, n |-> 0]]]
  /\ swaps = <<>>
  /\ sessions = <<>>
  /\ messages = <<>>
  /\ sockets = [k \in SocketIds |-> Nil]
  /\ resp = Idle
  /\ feedbacks = <<>>
  /\ inflight = {}
  /\ rooms = [k \in SocketIds |-> {}]
  /\ activeChats = [k \in SocketIds |-> {}]
  /\ clientMessages = [k \in SocketIds |-> {}]
  /\ connectedUsers = [u \in {} |-> Nil]
  /\ userRooms = [u \in {} |-> {}]
  /\ registry = [supabase |-> {}, db |-> {}, pending |-> {}]
  /\ userDoc = [stored |-> Hashed("p"), password |-> Hashed("p"), modified |-> FALSE,
                touched |-> FALSE, hashing |-> FALSE, writing |-> FALSE, nextCalls |-> 0]

\* ============================================================ specifications
\* Requests and events are handled one at a time (every handler starts from
\* Idle); every handler step is followed by Respond.  Ids in URLs and bodies range over the collection's
\* capacity, so they name documents that exist and documents that do not.
BodyIds(urlIds) == urlIds \cup {NoId}

\* the users who create swaps (u1, the administrator, only takes part as a
\* third party) and the users they may name as offerer
RequesterHeaders == {<<"Bearer", "t2">>, <<"Bearer", "t3">>}
RequestedOfferers == {"u2", "u3", "u9"}

CreateSwapRoute(offered, urgent, durs) ==
  \E hdr \in RequesterHeaders, off \in RequestedOfferers, sk \in offered,
     urg \in urgent, dur \in durs :
    CreateSwap(hdr, off, sk, DefaultSkill, urg, dur)

CreateDefaultSwap == CreateSwapRoute({DefaultSkill}, {FALSE}, {DefaultDuration})

\* ---- Spec: the swap lifecycle over the REST routes of /api/swaps
Next ==
  \/ CreateSwapRoute({DefaultSkill}, {FALSE}, {30, 60})
  \/ \E hdr \in UserHeaders, urlId \in UrlSwapIds, bodyId \in BodyIds(UrlSwapIds) :
       \/ GetSwap(hdr, urlId, bodyId)
       \/ \E status \in UpdateStatuses : UpdateSwap(hdr, urlId, bodyId, status, 0)
       \/ AcceptSwap(hdr, urlId, bodyId)
       \/ RejectSwap(hdr, urlId, bodyId)
       \/ CompleteSwap(hdr, urlId, bodyId)
       \/ CancelSwap(hdr, urlId, bodyId)
  \/ Respond

Spec == Init /\ [][Next]_vars

\* ---- SpecAccept: every way a swap's status is written to "accepted":
\* PUT /:id/accept, PUT /:id and the swapUpdate socket event
NextAccept ==
  \/ CreateDefaultSwap
  \/ \E hdr \in UserHeaders, urlId \in UrlSwapIds, bodyId \in BodyIds(UrlSwapIds) :
       \/ \E status \in UpdateStatuses : UpdateSwap(hdr, urlId, bodyId, status, 0)
       \/ AcceptSwap(hdr, urlId, bodyId)
  \/ \E t \in {"t2", "t3"} : SocketConnect("k1", t)
  \/ \E swapId \in UrlSwapIds, status \in SwapStatuses \cup {"bogus"} :
       SocketSwapUpdate("k1", swapId, status)
  \/ Respond

SpecAccept == Init /\ [][NextAccept]_vars

\* ---- SpecList: GET /api/swaps over swaps that differ in skill, urgency
\* and status
NextList ==
  \/ CreateSwapRoute(Skills, BOOLEAN, {DefaultDuration})
  \/ \E hdr \in UserHeaders, status \in SwapStatuses \cup {Nil}, role \in {"all", "requester", "offerer"},
        skill \in Skills \cup {Nil}, isUrgent \in {Nil, "true", "false"} :
       ListSwaps(hdr, status, role, skill, isUrgent)
  \/ \E hdr \in RequesterHeaders, id \in UrlSwapIds : CancelSwap(hdr, id, id)
  \/ Respond

SpecList == Init /\ [][NextList]_vars

\* ---- SpecAuth: authenticateToken, login and the /api/admin gate
AdminTargets == {"u2", "u3", "u9"}

NextAuth ==
  \/ \E hdr \in Headers, fault \in {"none", "supabase", "db"} : GetMe(hdr, fault)
  \/ \E cred \in (Users \cup {"ghost", "wrong"}) : Login(cred)
  \/ \E jwt \in JwtTokens :
       \/ \E route \in AdminOnlyReads \cup ModeratorReads : AdminRead(jwt, route)
       \/ \E target \in AdminTargets, role \in (Roles \cup {Nil, "bogus"}), isActive \in FlagInputs,
             isBanned \in FlagInputs :
            AdminUpdateUser(jwt, target, role, isActive, isBanned)
       \/ \E target \in AdminTargets, reasonOk \in BOOLEAN : AdminBanUser(jwt, target, reasonOk, 0)
       \/ \E target \in AdminTargets : AdminUnbanUser(jwt, target)
  \/ Respond

SpecAuth == Init /\ [][NextAuth]_vars

\* ---- SpecSession: the session lifecycle; sessions come from accepted swaps
NextSession ==
  \/ CreateDefaultSwap
  \/ \E hdr \in RequesterHeaders, id \in UrlSwapIds : AcceptSwap(hdr, id, id)
  \/ \E hdr \in RequesterHeaders, swapId \in UrlSwapIds :
       CreateSession(hdr, swapId, DefaultDuration)
  \/ \E hdr \in UserHeaders, urlId \in UrlSessionIds, bodyId \in BodyIds(UrlSessionIds) :
       \/ \E status \in (SessionStatuses \cup {Nil, "bogus"}) : UpdateSession(hdr, urlId, bodyId, status)
       \/ StartSession(hdr, urlId, bodyId)
       \/ EndSession(hdr, urlId, bodyId)
       \/ CancelSession(hdr, urlId, bodyId)
  \/ Respond

SpecSession == Init /\ [][NextSession]_vars

\* ---- SpecBan: banning and unbanning users who hold tokens and sockets
AdminJwt == [kind |-> "ok", id |-> "u1", role |-> "admin"]
BanTargets == {"u2", "u3"}

NextBan ==
  \/ CreateDefaultSwap
  \/ \E target \in BanTargets : AdminBanUser(AdminJwt, target, TRUE, 0)
  \/ \E target \in BanTargets : AdminUnbanUser(AdminJwt, target)
  \/ \E hdr \in RequesterHeaders : GetMe(hdr, "none")
  \/ \E cred \in BanTargets : Login(cred)
  \/ AdminDeleteMessage(AdminJwt, 1)
  \/ \E t \in {"t2", "t3"} : SocketConnect("k1", t)
  \/ SocketDisconnect("k1")
  \/ \E swapId \in UrlSwapIds : SocketMessage("k1", swapId)
  \/ \E m \in 1..MaxMessages, swapId \in UrlSwapIds : SocketMessageRead("k1", m, swapId)
  \/ \E swapId \in UrlSwapIds, status \in {"accepted", "cancelled"} :
       SocketSwapUpdate("k1", swapId, status)
  \/ \E sessionId \in UrlSessionIds, status \in {"in-progress", Nil} :
       SocketSessionUpdate("k1", sessionId, status)
  \/ Respond

SpecBan == Init /\ [][NextBan]_vars

\* ---- SpecFeedback: feedback on sessions that went through accept, start
\* and end, addressed to a participant or to an unknown user, with a valid
\* rating or none; two submissions may be in flight at the same time
NextFeedback ==
  \/ CreateDefaultSwap
  \/ \E hdr \in RequesterHeaders, id \in UrlSwapIds : AcceptSwap(hdr, id, id)
  \/ \E hdr \in RequesterHeaders, id \in UrlSessionIds : StartSession(hdr, id, id)
  \/ \E hdr \in RequesterHeaders, id \in UrlSessionIds : EndSession(hdr, id, id)
  \/ \E n \in 1..MaxInflight, hdr \in UserHeaders, sessionId \in UrlSessionIds,
        to \in RequestedOfferers, rating \in {0, 5} :
       SubmitFeedback(n, hdr, sessionId, to, rating)
  \/ \E n \in 1..MaxInflight : SaveFeedback(n)
  \/ Respond

SpecFeedback == Init /\ [][NextFeedback]_vars


\* ---- SpecMessage: the REST routes of /api/messages on the messages of a
\* swap, with the clock advancing and the moderation route removing documents
MessageIds == 1..MaxMessages

NextMessage ==
  \/ CreateDefaultSwap
  \/ \E hdr \in RequesterHeaders, swapId \in UrlSwapIds, c \in ContentInputs :
       PostMessage(hdr, swapId, c)
  \/ \E hdr \in UserHeaders, id \in MessageIds, c \in ContentInputs : PutMessage(hdr, id, c)
  \/ \E hdr \in UserHeaders, id \in MessageIds : DelMessage(hdr, id)
  \/ \E hdr \in UserHeaders, id \in MessageIds : ReadMessage(hdr, id)
  \/ \E hdr \in UserHeaders, swapId \in UrlSwapIds : ListMessages(hdr, swapId)
  \/ \E hdr \in UserHeaders, swapId \in UrlSwapIds : UnreadCount(hdr, swapId)
  \/ \E id \in MessageIds : AdminDeleteMessage(AdminJwt, id)
  \/ \E dt \in {1, 5} : Tick(dt)
  \/ Respond

SpecMessage == Init /\ [][NextMessage]_vars


\* ---- SpecChat: the Socket.IO handler with two sockets, which the two
\* participants of a swap or a third user may hold, next to the REST read mark
NextChat ==
  \/ CreateDefaultSwap
  \/ \E k \in SocketIds :
       \/ \E t \in UserTokens : SocketConnect(k, t)
       \/ SocketDisconnect(k)
       \/ \E swapId \in UrlSwapIds : SocketJoinSwap(k, swapId)
       \/ \E swapId \in UrlSwapIds : SocketLeaveSwap(k, swapId)
       \/ \E swapId \in UrlSwapIds : SocketMessage(k, swapId)
       \/ \E swapId \in UrlSwapIds : SocketTyping(k, swapId)
       \/ \E m \in MessageIds, swapId \in UrlSwapIds : SocketMessageRead(k, m, swapId)
  \/ \E swapId \in UrlSwapIds : SocketSwapUpdate("k1", swapId, "accepted")
  \/ \E sessionId \in UrlSessionIds : SocketSessionUpdate("k1", sessionId, "in-progress")
  \/ \E hdr \in UserHeaders, id \in MessageIds : ReadMessage(hdr, id)
  \/ Respond

SpecChat == Init /\ [][NextChat]_vars


\* ---- SpecClient: two ChatProvider clients, connected as the participants
\* of a swap, join chats and send messages; every response and every emit
\* eventually leaves the server
NextClient ==
  \/ CreateDefaultSwap
  \/ \E k \in SocketIds :
       \/ \E t \in {"t2", "t3"} : SocketConnect(k, t)
       \/ \E swapId \in UrlSwapIds : ClientJoinChat(k, swapId)
       \/ \E swapId \in UrlSwapIds : ClientLeaveChat(k, swapId)
       \/ \E swapId \in UrlSwapIds : ClientSendMessage(k, swapId)
  \/ Respond

SpecClient == Init /\ [][NextClient]_vars /\ WF_vars(Respond)


\* ---- SpecError: errorHandler applied to every error object of Errors
NextError ==
  \/ \E err \in Errors : HandleError(err)
  \/ Respond

SpecError == Init /\ [][NextError]_vars


\* ---- SpecTerminal: every request and event that writes a swap's status,
\* addressed to the first swap and its session, which reach rejected,
\* completed or cancelled; a second swap may exist next to it
NextTerminal ==
  \/ CreateDefaultSwap
  \/ \E hdr \in RequesterHeaders, id \in {1} :
       \/ \E status \in SwapStatuses : UpdateSwap(hdr, id, id, status, 0)
       \/ AcceptSwap(hdr, id, id)
       \/ RejectSwap(hdr, id, id)
       \/ CompleteSwap(hdr, id, id)
       \/ CancelSwap(hdr, id, id)
  \/ \E hdr \in RequesterHeaders, id \in {1} :
       \/ StartSession(hdr, id, id)
       \/ EndSession(hdr, id, id)
  \/ SocketConnect("k1", "t2")
  \/ \E swapId \in {1}, status \in SwapStatuses : SocketSwapUpdate("k1", swapId, status)
  \/ \E sessionId \in {1}, status \in {"in-progress", "completed"} :
       SocketSessionUpdate("k1", sessionId, status)
  \/ Respond

SpecTerminal == Init /\ [][NextTerminal]_vars

\* ---- SpecPair: swaps between u2 and u3 created by requests that may be in
\* flight at the same time, and the routes and events that change statuses
NextPair ==
  \/ \E n \in 1..MaxInflight, hdr \in RequesterHeaders, off \in RequestedOfferers :
       CreateSwapCheck(n, hdr, off)
  \/ \E n \in 1..MaxInflight : CreateSwapSave(n)
  \/ \E hdr \in RequesterHeaders, id \in UrlSwapIds :
       \/ \E status \in {"pending", "accepted"} : UpdateSwap(hdr, id, id, status, 0)
       \/ CancelSwap(hdr, id, id)
  \/ SocketConnect("k1", "t2")
  \/ \E swapId \in UrlSwapIds, status \in {"pending", "cancelled"} :
       SocketSwapUpdate("k1", swapId, status)
  \/ Respond

SpecPair == Init /\ [][NextPair]_vars


\* ---- SpecOneSession: every request and event that creates a session: PUT
\* /:id/accept, PUT /:id with status accepted, POST /api/sessions and the
\* swapUpdate socket event with status accepted
NextOneSession ==
  \/ CreateDefaultSwap
  \/ \E hdr \in RequesterHeaders, id \in UrlSwapIds :
       \/ AcceptSwap(hdr, id, id)
       \/ UpdateSwap(hdr, id, id, "accepted", 0)
       \/ CreateSession(hdr, id, DefaultDuration)
  \/ \E t \in {"t2", "t3"} : SocketConnect("k1", t)
  \/ \E swapId \in UrlSwapIds : SocketSwapUpdate("k1", swapId, "accepted")
  \/ Respond

SpecOneSession == Init /\ [][NextOneSession]_vars


\* ---- SpecCompleted: every way a swap reaches completed: PUT /:id/complete,
\* PUT /:id with status completed, PUT /api/sessions/:id/end and the
\* swapUpdate socket event
NextCompleted ==
  \/ CreateDefaultSwap
  \/ \E hdr \in RequesterHeaders, id \in UrlSwapIds :
       \/ AcceptSwap(hdr, id, id)
       \/ CompleteSwap(hdr, id, id)
       \/ UpdateSwap(hdr, id, id, "completed", 0)
  \/ \E hdr \in RequesterHeaders, id \in UrlSessionIds :
       \/ StartSession(hdr, id, id)
       \/ EndSession(hdr, id, id)
  \/ SocketConnect("k1", "t2")
  \/ \E swapId \in UrlSwapIds : SocketSwapUpdate("k1", swapId, "completed")
  \/ Respond

SpecCompleted == Init /\ [][NextCompleted]_vars


\* ---- SpecRating: feedback on the session of the first swap is created,
\* updated, deleted by its author, an admin or a moderator, and flagged
NextRating ==
  \/ CreateDefaultSwap
  \/ \E hdr \in RequesterHeaders :
       \/ AcceptSwap(hdr, 1, 1)
       \/ StartSession(hdr, 1, 1)
       \/ EndSession(hdr, 1, 1)
       \/ \E to \in BanTargets, rating \in Ratings : SubmitFeedback(1, hdr, 1, to, rating)
       \/ \E reasonOk \in BOOLEAN : FlagFeedback(hdr, 1, reasonOk)
  \/ SaveFeedback(1)
  \/ \E hdr \in UserHeaders :
       \/ \E rating \in (Ratings \cup {0, 9}), isPublic \in FlagInputs :
            UpdateFeedback(hdr, 1, rating, isPublic)
       \/ DeleteFeedback(hdr, 1)
  \/ AdminDeleteFeedback(AdminJwt, 1)
  \/ Respond

SpecRating == Init /\ [][NextRating]_vars


\* ---- SpecVote: helpful votes on the feedback of the first session
NextVote ==
  \/ CreateDefaultSwap
  \/ \E hdr \in RequesterHeaders :
       \/ AcceptSwap(hdr, 1, 1)
       \/ StartSession(hdr, 1, 1)
       \/ EndSession(hdr, 1, 1)
       \/ SubmitFeedback(1, hdr, 1, "u3", 5)
  \/ SaveFeedback(1)
  \/ \E hdr \in UserHeaders, id \in 1..MaxFeedbacks, vote \in {"helpful", "not_helpful", "maybe", Nil}, at \in (1..MaxVoteTime) :
       VoteFeedback(hdr, id, vote, at)
  \/ Respond

SpecVote == Init /\ [][NextVote]_vars


\* ---- SpecPresence: two sockets, which one user or two users may hold,
\* connect, join and leave swap rooms and disconnect in any order
NextPresence ==
  \/ CreateDefaultSwap
  \/ \E k \in SocketIds :
       \/ \E t \in UserTokens : SocketConnect(k, t)
       \/ SocketDisconnect(k)
       \/ \E swapId \in UrlSwapIds : SocketJoinSwap(k, swapId)
       \/ \E swapId \in UrlSwapIds : SocketLeaveSwap(k, swapId)
  \/ Respond

SpecPresence == Init /\ [][NextPresence]_vars


\* ---- SpecRegister: two registration requests at a time, for two emails,
\* with a failure possible at every call to Supabase or the database, and
\* account deletion
NextRegister ==
  \/ \E p \in 1..MaxInflight :
       \/ \E email \in {"a@x", "b@x"}, valid \in BOOLEAN, fault \in {"none", "findOne"} :
            RegisterCheck(p, email, valid, fault)
       \/ \E fault \in {"none", "signUp"} : RegisterSignUp(p, fault)
       \/ \E fault \in {"none", "save", "signIn"} : RegisterSave(p, fault)
  \/ \E id \in 1..MaxAccounts, fault \in {"none", "supabase", "db"} : DeleteMe(id, fault)
  \/ Respond

SpecRegister == Init /\ [][NextRegister]_vars


\* ---- SpecTwoAuth: the same callers under the JWT stack and the Supabase
\* stack, while an administrator bans and unbans users and changes roles
NextTwoAuth ==
  \/ \E u \in Users, tokenOk \in BOOLEAN, claimRole \in Roles \cup {Nil} :
       TwoAuth(u, tokenOk, claimRole)
  \/ \E target \in Users : AdminBanUser(AdminJwt, target, TRUE, 0)
  \/ \E target \in Users : AdminUnbanUser(AdminJwt, target)
  \/ \E target \in BanTargets, role \in Roles : AdminUpdateUser(AdminJwt, target, role, Nil, Nil)
  \/ Respond

SpecTwoAuth == Init /\ [][NextTwoAuth]_vars


\* ---- SpecPreSave: a document of the JWT-variant User model is loaded,
\* given a new password or left alone, and saved
NextPreSave ==
  \/ LoadUser
  \/ \E plain \in {"p", "q", "r"} : SetPassword(plain)
  \/ PreSave
  \/ PreSaveHash
  \/ WriteUser

SpecPreSave == Init /\ [][NextPreSave]_vars


\* ---- SpecTempBan: bans with and without a duration, the passing of days,
\* unbans, and the banned users' requests
NextTempBan ==
  \/ \E target \in BanTargets, duration \in {0, 1, 2} :
       AdminBanUser(AdminJwt, target, TRUE, duration)
  \/ \E target \in BanTargets : AdminUnbanUser(AdminJwt, target)
  \/ DayPasses
  \/ \E hdr \in RequesterHeaders : GetMe(hdr, "none")
  \/ Respond

SpecTempBan == Init /\ [][NextTempBan]_vars


\* ================================================================== claims
SwapIdOps == {"getSwap", "updateSwap", "acceptSwap", "rejectSwap", "completeSwap", "cancelSwap"}

\* C1: on every route guarded by requireSwapParticipation the swap loaded
\* into req.swap is the swap named by the :id segment of the URL, whatever
\* the body holds, and a participant's request with an empty body passes
\* the guard (resp.doc is req.swap, NoId when the guard rejected).
C1_GuardLoadsUrlSwap ==
  resp.op \in SwapIdOps =>
    /\ resp.doc # NoId => resp.doc = resp.urlId
    /\ ( /\ resp.caller # Nil
         /\ resp.urlId \in 1..Len(swaps)
         /\ isParticipant(swaps[resp.urlId], resp.caller)
         /\ resp.bodyId = NoId ) => resp.doc # NoId

\* C2: PUT /api/swaps/:id/accept by the offerer: while the swap is pending
\* the request succeeds, the swap becomes accepted and a scheduled session
\* with the swap's requesterId, offererId and duration is created; otherwise
\* it returns 400 and neither the swap nor the sessions change.
C2_AcceptCreatesSession ==
  [][ ( /\ resp'.op = "acceptSwap"
        /\ resp'.urlId \in 1..Len(swaps)
        /\ resp'.caller = swaps[resp'.urlId].offererId )
      => LET id == resp'.urlId
             s == swaps[id]
         IN IF s.status = "pending"
            THEN /\ resp'.status = 200
                 /\ swaps'[id].status = "accepted"
                 /\ Len(sessions') = Len(sessions) + 1
                 /\ LET n == sessions'[Len(sessions')] IN
                    /\ n.swapId = id
                    /\ n.status = "scheduled"
                    /\ n.requesterId = s.requesterId
                    /\ n.offererId = s.offererId
                    /\ n.duration = s.duration
            ELSE /\ resp'.status = 400
                 /\ swaps' = swaps
                 /\ sessions' = sessions ]_vars

\* C3: a swap's status changes to accepted only through an operation issued
\* by that swap's offerer while the status was pending.
C3_OnlyOffererAccepts ==
  [][ \A i \in 1..Len(swaps) :
        (swaps'[i].status = "accepted" /\ swaps[i].status # "accepted")
        => (resp'.caller = swaps[i].offererId /\ swaps[i].status = "pending") ]_vars

\* C4: PUT /api/swaps/:id/complete by a participant succeeds only when the
\* swap is accepted; on success the swap becomes completed and completedSwaps
\* of requester and offerer each grow by exactly 1; in any other status it
\* returns 400 and neither the swap nor any counter changes.
C4_CompleteCountsOnce ==
  [][ ( /\ resp'.op = "completeSwap"
        /\ resp'.urlId \in 1..Len(swaps)
        /\ resp'.caller # Nil
        /\ isParticipant(swaps[resp'.urlId], resp'.caller) )
      => LET id == resp'.urlId
             s == swaps[id]
         IN /\ resp'.status = 200 =>
                 /\ s.status = "accepted"
                 /\ swaps'[id].status = "completed"
                 /\ \A u \in Users :
                      users'[u].completedSwaps =
                        users[u].completedSwaps + (IF isParticipant(s, u) THEN 1 ELSE 0)
            /\ s.status # "accepted" =>
                 /\ resp'.status = 400
                 /\ swaps' = swaps
                 /\ users' = users ]_vars

\* C5: every swap in a GET /api/swaps response has the authenticated caller
\* as requesterId or offererId, for every combination of query parameters.
C5_ListOnlyOwnSwaps ==
  (resp.op = "listSwaps" /\ resp.status = 200)
  => \A i \in resp.items : isParticipant(swaps[i], resp.caller)
\* the user whose Supabase token an Authorization header carries, or Nil
HeaderUser(hdr) ==
  IF Len(hdr) = 2 /\ SupabaseAccount[hdr[2]] # Nil
  THEN FindUserBySupabaseId(SupabaseAccount[hdr[2]])
  ELSE Nil

\* C6: authenticateToken calls next() only for a token Supabase accepts
\* whose database user exists, is active and is not banned; otherwise it
\* answers 401 (no token), 403 (token rejected), 404 (no database user),
\* 403 (inactive or banned) or 500 (verification throws), without next().
C6_AuthenticateTokenOutcome ==
  resp.op = "getMe" =>
    LET present == Len(resp.hdr) = 2
        accepted == present /\ SupabaseAccount[resp.hdr[2]] # Nil
        u == HeaderUser(resp.hdr)
        allowed == u # Nil /\ users[u].isActive /\ ~users[u].isBanned
        throws == \/ present /\ resp.fault = "supabase"
                  \/ accepted /\ resp.fault = "db"
    IN /\ resp.handler <=> (accepted /\ allowed /\ ~throws)
       /\ resp.handler => resp.status = 200 /\ resp.caller = u
       /\ ~present => resp.status = 401
       /\ throws => resp.status = 500
       /\ (present /\ ~accepted /\ ~throws) => resp.status = 403
       /\ (accepted /\ u = Nil /\ ~throws) => resp.status = 404
       /\ (accepted /\ u # Nil /\ ~allowed /\ ~throws) => resp.status = 403

\* C6 witness: a valid token of a deactivated user is answered 403
C6_Witness ==
  /\ resp.op = "getMe"
  /\ resp.fault = "none"
  /\ HeaderUser(resp.hdr) # Nil
  /\ ~users[HeaderUser(resp.hdr)].isActive
  /\ ~users[HeaderUser(resp.hdr)].isBanned
  /\ resp.status = 403
  /\ ~resp.handler

\* C7: a request by a caller whose database role is not admin (or by no
\* authenticated caller at all) never reaches the handler of an admin-only
\* route under /api/admin and changes no user's role, isActive or isBanned.
C7_AdminRoutesAdminOnly ==
  [][ (resp'.op \in AdminOnlyRoutes /\ resp'.arg # "admin")
      => /\ ~resp'.handler
         /\ \A u \in Users :
              /\ users'[u].role = users[u].role
              /\ users'[u].isActive = users[u].isActive
              /\ users'[u].isBanned = users[u].isBanned ]_vars

\* C7 witness: a caller with database role user, whose token still claims
\* the admin role, is turned away from PUT /api/admin/users/:id
C7_Witness ==
  /\ resp.op = "updateUser"
  /\ resp.arg = "user"
  /\ resp.hdr = <<"admin">>
  /\ resp.status = 403
  /\ ~resp.handler
  /\ \E u \in Users : users[u].role = "admin"

\* C8: a moderator (database role moderator, holding a token that says so)
\* is served on the routes marked moderator+.
C8_ModeratorReachesModeration ==
  (resp.op \in ModeratorRoutes /\ resp.arg = "moderator" /\ resp.hdr = <<"moderator">>)
  => resp.handler

SocketEventOps == {"message", "messageRead", "swapUpdate", "sessionUpdate"}

\* C9: while a user is banned, every REST request of that user through
\* authenticateToken and every login is answered 403, and no Socket.IO event
\* of that user stores a message or changes a swap, session or message.
C9_BannedUserCannotAct ==
  [][ \A u \in Users :
        (users[u].isBanned /\ users'[u].isBanned)
        => /\ (resp'.op = "getMe" /\ HeaderUser(resp'.hdr) = u) => resp'.status = 403
           /\ (resp'.op = "login" /\ resp'.caller = u) => resp'.status = 403
           /\ (resp'.op \in SocketEventOps /\ resp'.caller = u)
              => (swaps' = swaps /\ sessions' = sessions /\ messages' = messages) ]_vars

\* C10: by a participant, PUT /api/sessions/:id/start moves a scheduled
\* session to in-progress with startedAt set, /end moves an in-progress
\* session to completed with endedAt set, /cancel moves a scheduled session
\* to cancelled and records cancelledBy; in any other status each returns
\* 400 and leaves the session unchanged.
C10_SessionLifecycle ==
  [][ ( /\ resp'.op \in {"startSession", "endSession", "cancelSession"}
        /\ resp'.urlId \in 1..Len(sessions)
        /\ resp'.caller # Nil
        /\ sessionIsParticipant(sessions[resp'.urlId], resp'.caller) )
      => LET id == resp'.urlId
             old == sessions[id]
             new == sessions'[id]
             from == IF resp'.op = "endSession" THEN "in-progress" ELSE "scheduled"
         IN IF old.status = from
            THEN /\ resp'.status = 200
                 /\ resp'.op = "startSession" => new.status = "in-progress" /\ new.startedAt
                 /\ resp'.op = "endSession" => new.status = "completed" /\ new.endedAt
                 /\ resp'.op = "cancelSession" =>
                      new.status = "cancelled" /\ new.cancelledBy = resp'.caller
            ELSE /\ resp'.status = 400
                 /\ new = old ]_vars

\* C11: every stored feedback belongs to a completed session, its author is
\* a participant of that session and differs from its recipient, and no two
\* feedbacks share (sessionId, fromUserId, toUserId), also when identical
\* submissions are processed concurrently.
C11_FeedbackWellFormed ==
  \A i \in 1..Len(feedbacks) :
     LET f == feedbacks[i] IN
     /\ sessions[f.sessionId].status = "completed"
     /\ sessionIsParticipant(sessions[f.sessionId], f.fromUserId)
     /\ f.fromUserId # f.toUserId
     /\ \A j \in 1..Len(feedbacks) :
          (j # i) => \/ feedbacks[j].sessionId # f.sessionId
                     \/ feedbacks[j].fromUserId # f.fromUserId
                     \/ feedbacks[j].toUserId # f.toUserId

\* C12: PUT /api/messages/:id with valid content changes the message only
\* when the caller is its sender, it is not deleted and at most 5 minutes
\* have passed since it was created: then content is replaced and isEdited
\* is true; otherwise the answer is 403 for another user, 400 for a deleted
\* or too old message, and the message is unchanged.
C12_EditOnlyBySenderInTime ==
  [][ ( /\ resp'.op = "putMessage"
        /\ resp'.caller # Nil
        /\ resp'.arg \in Contents
        /\ FindMessage(resp'.urlId) # NoId )
      => LET id == resp'.urlId
             m == messages[id]
         IN IF m.senderId = resp'.caller /\ ~m.isDeleted /\ m.age <= maxEditTime
            THEN /\ resp'.status = 200
                 /\ messages'[id] = [m EXCEPT !.content = resp'.arg, !.isEdited = TRUE]
            ELSE /\ messages' = messages
                 /\ resp'.status = IF m.senderId # resp'.caller THEN 403 ELSE 400 ]_vars

\* C12 witness: the sender's edit at exactly five minutes is applied
C12_Witness ==
  /\ resp.op = "putMessage"
  /\ resp.status = 200
  /\ messages[resp.urlId].age = maxEditTime
  /\ messages[resp.urlId].isEdited
  /\ messages[resp.urlId].content = "b"

\* C13: DELETE /api/messages/:id succeeds only for the sender or an admin
\* and then sets isDeleted and deletedBy = caller; a deleted message is
\* answered 400 on a second delete, is absent from GET
\* /api/messages/swap/:swapId, from its total and from unread counts; and
\* isDeleted never returns to false.
C13_SoftDelete ==
  [][ /\ ( /\ resp'.op = "delMessage"
           /\ resp'.caller # Nil
           /\ FindMessage(resp'.urlId) # NoId )
         => LET id == resp'.urlId
                m == messages[id]
                allowed == m.senderId = resp'.caller \/ users[resp'.caller].role = "admin"
            IN /\ resp'.status = 200 <=> (allowed /\ ~m.isDeleted)
               /\ resp'.status = 200 =>
                    messages'[id] = [m EXCEPT !.isDeleted = TRUE, !.deletedBy = resp'.caller]
               /\ resp'.status # 200 => messages' = messages
               /\ (allowed /\ m.isDeleted) => resp'.status = 400
               /\ ~allowed => resp'.status = 403
      /\ (resp'.op \in {"listMessages", "unreadCount"} /\ resp'.status = 200)
         => /\ \A i \in resp'.items : ~messages[i].isDeleted
            /\ resp'.count = Cardinality(resp'.items)
            /\ resp'.op = "listMessages" =>
                 \A i \in 1..Len(messages) :
                    (messages[i].present /\ messages[i].swapId = resp'.urlId
                     /\ ~messages[i].isDeleted) => i \in resp'.items
      /\ \A i \in 1..Len(messages) :
           (messages[i].present /\ messages[i].isDeleted /\ messages'[i].present)
           => messages'[i].isDeleted ]_vars

\* C13 witness: an admin who did not send the message deleted it
C13_Witness ==
  /\ resp.op = "delMessage"
  /\ resp.status = 200
  /\ messages[resp.urlId].isDeleted
  /\ messages[resp.urlId].deletedBy = resp.caller
  /\ messages[resp.urlId].senderId # resp.caller

RoomEvents == {"newMessage", "userTyping", "swapUpdated", "sessionUpdated"}

\* C14: a socket is in room swap:<id> only if its authenticated user is the
\* requester or the offerer of swap <id>, and every newMessage, userTyping,
\* swapUpdated and sessionUpdated event of a swap is delivered only to
\* sockets of that swap's two participants.
C14_RoomsHoldParticipants ==
  /\ \A k \in SocketIds : \A id \in rooms[k] :
       /\ sockets[k] # Nil
       /\ id \in 1..Len(swaps)
       /\ isParticipant(swaps[id], sockets[k])
  /\ \A e \in resp.emits :
       e.event \in RoomEvents =>
         \A k \in Receivers(e) :
            \/ swaps[e.swap].requesterId = sockets[k]
            \/ swaps[e.swap].offererId = sockets[k]

\* C14 witness: a typing event reaches the socket of the other participant,
\* which is in the room of the swap
C14_Witness ==
  /\ resp.op = "typing"
  /\ \E e \in resp.emits : e.event = "userTyping" /\ Receivers(e) # {}
  /\ \E k \in SocketIds : sockets[k] # Nil /\ rooms[k] # {}

C16_ReadReceipts ==
  /\ \A i \in 1..Len(messages) :
       LET m == messages[i] IN
       /\ \A a, b \in 1..Len(m.readBy) : m.readBy[a] = m.readBy[b] => a = b
       /\ \A a \in 1..Len(m.readBy) : isParticipant(swaps[m.swapId], m.readBy[a])
  /\ (resp.op = "messageRead" /\ resp.status = 204) => resp.emits = {}

\* C17: if both participants of a swap are connected through ChatProvider
\* and each has called joinChat(swapId), a message one of them sends with
\* sendMessage(swapId, content) is eventually appended to the other
\* participant's messages[swapId].
C17_ChatEndToEnd ==
  \A k1 \in SocketIds, k2 \in SocketIds, id \in SwapIds, m \in MessageIds :
    ( /\ k1 # k2
      /\ resp.op = "message" /\ resp.status = 200
      /\ resp.bodyId = id /\ resp.made = m
      /\ sockets[k1] = resp.caller
      /\ sockets[k2] # Nil /\ sockets[k2] # resp.caller
      /\ isParticipant(swaps[id], sockets[k2])
      /\ id \in activeChats[k1] /\ id \in activeChats[k2]
      /\ Optimistic(id) \in clientMessages[k1] )
    ~> (Received(id, m) \in clientMessages[k2])

\* C18: errorHandler answers a ValidationError without statusCode with 400,
\* error "Validation Error" and the field messages as details; a
\* duplicate-key error (code 11000) with 400 and "Duplicate field value"; a
\* CastError with 400 and "Invalid ID format"; an error carrying statusCode
\* with that status and its own message; anything else with 500.
C18_ErrorResponses ==
  resp.op = "error" =>
    LET e == resp.err
        validation == e.name = "ValidationError" /\ e.statusCode = 0 /\ e.hasErrors
        duplicate == e.code = 11000 /\ e.keyField # Nil
        plain == e.code # 11000 /\ e.statusCode = 0
    IN /\ (validation /\ e.code # 11000) =>
            /\ resp.status = 400
            /\ resp.body.error = "Validation Error"
            /\ resp.body.details = [kind |-> "list", list |-> e.errors, text |-> Nil]
       /\ (duplicate /\ e.statusCode = 0 /\ e.name = "MongoServerError") =>
            /\ resp.status = 400
            /\ resp.body.error = "Duplicate field value"
       /\ (e.name = "CastError" /\ plain) =>
            /\ resp.status = 400
            /\ resp.body.error = "Invalid ID format"
       /\ (e.statusCode # 0 /\ e.hasErrors /\ e.code # 11000) =>
            /\ resp.status = e.statusCode
            /\ resp.body.error = e.message
       /\ (e.name \in {"Error", "MongoServerError"} /\ plain) => resp.status = 500


\* C19: once a swap's status is rejected, completed or cancelled, no REST
\* request and no Socket.IO event changes its status again.
C19_TerminalStatusesFinal ==
  [][ \A i \in 1..Len(swaps) :
        swaps[i].status \in {"rejected", "completed", "cancelled"} => swaps'[i].status = swaps[i].status ]_vars

\* C20: there is at most one swap with status pending or accepted between
\* any unordered pair of users and no swap has requesterId = offererId, also
\* with concurrent POST /api/swaps requests and later status changes.
C20_OneActiveSwapPerPair ==
  /\ \A i \in 1..Len(swaps) : swaps[i].requesterId # swaps[i].offererId
  /\ \A i, j \in 1..Len(swaps) :
       ( /\ i # j
         /\ swaps[i].status \in {"pending", "accepted"}
         /\ swaps[j].status \in {"pending", "accepted"} )
       => {swaps[i].requesterId, swaps[i].offererId}
            # {swaps[j].requesterId, swaps[j].offererId}

\* C21: at most one session exists for each swap, whichever of PUT
\* /api/swaps/:id/accept, PUT /api/swaps/:id with status accepted, POST
\* /api/sessions and the swapUpdate socket event created it, and every
\* session's requesterId and offererId equal those of its swap.
C21_OneSessionPerSwap ==
  /\ \A i, j \in 1..Len(sessions) : sessions[i].swapId = sessions[j].swapId => i = j
  /\ \A i \in 1..Len(sessions) :
       /\ sessions[i].requesterId = swaps[sessions[i].swapId].requesterId
       /\ sessions[i].offererId = swaps[sessions[i].swapId].offererId

\* C22: for every user completedSwaps equals the number of swaps with status
\* completed in which the user is requester or offerer, whichever way each
\* swap reached completed.
C22_CompletedSwapsCounted ==
  \A u \in Users :
    users[u].completedSwaps =
      Cardinality({i \in 1..Len(swaps) :
                     swaps[i].status = "completed" /\ isParticipant(swaps[i], u)})

\* C23: every swap whose status is completed has completedAt set and every
\* swap whose status is cancelled has cancelledAt set, whichever operation
\* produced that status.
C23_TerminalTimestamps ==
  \A i \in 1..Len(swaps) :
    /\ swaps[i].status = "completed" => swaps[i].completedAt
    /\ swaps[i].status = "cancelled" => swaps[i].cancelledAt

\* C24: after any sequence of feedback operations each user's stored rating
\* equals the average rating of the public, unflagged feedback addressed to
\* that user, is 0 when there is none, and lies within 0..5.
C24_StoredRatingIsAverage ==
  \A u \in Users :
    LET stored == users[u].rating
        avg == getAverageRating(feedbacks, u)
    IN /\ IF stored.n = 0 \/ avg.n = 0
          THEN stored.n = avg.n
          ELSE stored.sum * avg.n = avg.sum * stored.n
       /\ stored.sum <= 5 * stored.n

\* C25: for every feedback, after any sequence of helpful votes, voters holds
\* at most one entry per user, helpfulVotes.helpful is the number of voters
\* whose vote is helpful, helpfulVotes.notHelpful the number whose vote is
\* not_helpful, and a vote that repeats the user's current vote leaves the
\* feedback as it was.
C25_VotesCounted ==
  /\ [](\A i \in 1..Len(feedbacks) :
         LET v == feedbacks[i].voters IN
         /\ \A j, k \in 1..Len(v) : v[j].userId = v[k].userId => j = k
         /\ feedbacks[i].helpful = Cardinality({k \in 1..Len(v) : v[k].vote = "helpful"})
         /\ feedbacks[i].notHelpful =
              Cardinality({k \in 1..Len(v) : v[k].vote = "not_helpful"}))
  /\ [][(/\ resp'.op = "helpfulVote"
          /\ resp'.status = 200
          /\ \E k \in 1..Len(feedbacks[resp'.urlId].voters) :
               /\ feedbacks[resp'.urlId].voters[k].userId = resp'.caller
               /\ feedbacks[resp'.urlId].voters[k].vote = resp'.arg)
         => feedbacks' = feedbacks]_vars

\* two users have voted on feedback 1, the one who voted first has since
\* changed sides, and the last request repeated its caller's current vote
C25_Witness ==
  /\ Len(feedbacks) >= 1
  /\ Len(feedbacks[1].voters) = 2
  /\ feedbacks[1].voters[1].votedAt > feedbacks[1].voters[2].votedAt
  /\ feedbacks[1].helpful = 1
  /\ feedbacks[1].notHelpful = 1
  /\ resp.op = "helpfulVote"
  /\ resp.status = 200
  /\ resp.caller = feedbacks[1].voters[2].userId
  /\ resp.arg = feedbacks[1].voters[2].vote
  /\ feedbacks[1].voters[2].votedAt < MaxVoteTime

\* C26: in every reachable state connectedUsers has an entry for a user
\* exactly when the user has a connected socket, the entry's socketId is a
\* connected socket of that user, and userRooms lists exactly the swap rooms
\* the user's connected sockets are in.
C26_PresenceMatchesSockets ==
  \A u \in Users :
    LET mine == {k \in SocketIds : sockets[k] = u} IN
    /\ (u \in DOMAIN connectedUsers) <=> (mine # {})
    /\ (u \in DOMAIN connectedUsers) => (connectedUsers[u] \in mine)
    /\ (IF u \in DOMAIN userRooms THEN userRooms[u] ELSE {}) = UNION {rooms[k] : k \in mine}

\* C27: once every register and delete request has finished, whether with
\* success or with an error at some step, a Supabase account exists exactly
\* when a database user with that supabaseId exists, and no two database
\* users share an email, also with concurrent registrations of one email.
C27_AccountsMatchUsers ==
  /\ registry.pending = {} =>
       /\ \A a \in registry.supabase : \E d \in registry.db : d.supabaseId = a.id
       /\ \A d \in registry.db : \E a \in registry.supabase : a.id = d.supabaseId
  /\ \A d, e \in registry.db : d.email = e.email => d = e

\* C28: the JWT middleware and the Supabase middleware disagree on three
\* classes of request: a token that is not valid (401 against 403), a banned
\* user with a valid token (admitted against 403), and an administrator whose
\* req.user was filled in by the other implementation (each requireAdmin
\* admits the req.user of its own auth and not that of the other, unless
\* the JWT itself claims the admin role).
C28_MiddlewaresDisagree ==
  resp.op = "twoAuth" =>
    LET o == resp.outcomes
        u == resp.caller
    IN
    /\ resp.arg = "bad" => (o.jwtAuth = 401 /\ o.supAuth = 403)
    /\ (resp.arg = "ok" /\ users[u].isBanned) => (o.jwtAuth = 0 /\ o.supAuth = 403)
    /\ (resp.arg = "ok" /\ users[u].role = "admin" /\ users[u].isActive /\ ~users[u].isBanned) =>
         /\ o.ss = 0 /\ o.sj # 0
         /\ o.jj = 0 /\ (resp.hdr # <<"admin">> => o.js # 0)

\* a banned user with valid tokens was admitted by the JWT auth and refused
\* by authenticateToken
C28_Witness ==
  /\ resp.op = "twoAuth"
  /\ resp.arg = "ok"
  /\ users[resp.caller].isBanned
  /\ resp.outcomes.jwtAuth = 0
  /\ resp.outcomes.supAuth = 403

\* C29: saving a user document whose password was not modified leaves the
\* stored password hash unchanged, and the pre-save hook calls next once.
C29_UnmodifiedSaveKeepsHash ==
  /\ [][~userDoc.touched => userDoc'.stored = userDoc.stored]_vars
  /\ [][(~userDoc.modified /\ ~userDoc.hashing /\ userDoc'.hashing) => userDoc'.nextCalls = 1]_vars

\* C30: a ban with a duration is temporary: once its banUntil has passed the
\* user passes authenticateToken again without an unban; a ban without a
\* duration lasts until the unban.
C30_TimedBanExpires ==
  \A t \in {"t2", "t3"} :
    LET u == FindUserBySupabaseId(SupabaseAccount[t])
        a == authenticateToken(<<"Bearer", t>>, "none")
    IN
    /\ users[u].banUntil = 0 => a.status = 0
    /\ (users[u].isBanned /\ users[u].banUntil = NoBanUntil) => a.status = 403

====
